---- MODULE Spec2Model ----
(***************************************************************************)
(* Light bar controller: scheduler, fade controller, orchestrator loop and *)
(* the file-based shared-state channels.                                   *)
(*                                                                         *)
(* Time is counted in ticks of 0.1 s (the loop's update_interval), so a    *)
(* time.time() value t is t seconds * 10.  A brightness is in thousandths  *)
(* (0..1000 for the source's 0.0..1.0).  Python's None is the empty         *)
(* sequence <<>> and an Optional value v is <<v>>.                         *)
(***************************************************************************)
EXTENDS Integers, Sequences, FiniteSets, TLC

VARIABLES
    now,              \* time.time(), in ticks of 0.1 s
    scheduler,        \* the Scheduler object
    state_file,       \* the persisted schedule state document
    config_file,      \* the schedule config document and its mtime
    fade_controller,  \* the FadeController object
    controller,       \* the LightBarController object
    control_file,     \* the control document as the orchestrator reads it
    fs,               \* /tmp: the directory (path -> inode) and the inodes' data
    procs,            \* the processes and threads that use the shared files
    oled_sync,        \* the OLEDSync object
    telemetry_file,   \* the telemetry document as the orchestrator reads it
    call              \* the last operation called: its name, arguments, result

vars == <<now, scheduler, state_file, config_file, fade_controller,
          controller, control_file, fs, procs, oled_sync, telemetry_file,
          call>>

None == <<>>
Some(v) == <<v>>
Val(o) == o[1]

----------------------------------------------------------------------------
(* Program constants, in ticks of 0.1 s *)

update_interval == 1
check_interval == 600
control_check_interval == 5
fade_in_duration == 30
fade_out_duration == 20

(* Bounds of the model *)

MaxElapsed == 1800
MaxFadeElapsed == 60
MaxFrames == 5
MaxApiCalls == 1
MaxRequests == 1
MaxPolls == 2
MaxTelemetryWrites == 1
MaxOledAdvances == 6
MaxHealthFrames == 4
MaxDemoFrames == 8
MaxDemoWrites == 2
MaxPollFrames == 4
MaxPollWrites == 2
MaxRobustFrames == 4
MaxRobustWrites == 1
MaxBusFailures == 3
MaxFaultFrames == 4
MaxFaultWrites == 2
MaxPersistElapsed == 1800
MaxReloadElapsed == 1800
MaxReplacements == 2
MaxConfigWrites == 2
MaxUnknownFrames == 4
MaxUnknownWrites == 3

----------------------------------------------------------------------------
(* datetime.time values: records compared as Python compares them,         *)
(* field by field from the hour down.                                      *)

dtime(h, m, s) == [hour |-> h, minute |-> m, second |-> s]

TimeLT(a, b) ==
    \/ a.hour < b.hour
    \/ a.hour = b.hour /\ a.minute < b.minute
    \/ a.hour = b.hour /\ a.minute = b.minute /\ a.second < b.second

TimeLE(a, b) == a = b \/ TimeLT(a, b)

(* A "HH:MM" string is the pair <<HH, MM>>; a string that does not split   *)
(* into two fields, or whose fields are out of range, is a tuple of        *)
(* another length or with such fields, and falls back to 07:00.            *)
parse_time(time_str) ==
    IF /\ Len(time_str) = 2
       /\ time_str[1] \in 0..23 /\ time_str[2] \in 0..59
    THEN dtime(time_str[1], time_str[2], 0)
    ELSE dtime(7, 0, 0)

get_current_time(t) ==
    LET secs == t \div 10
    IN dtime((secs \div 3600) % 24, (secs \div 60) % 60, secs % 60)

----------------------------------------------------------------------------
(* Scheduler *)

ON == "on"
OFF == "off"
OVERRIDE_ON == "override_on"
OVERRIDE_OFF == "override_off"
TRANSITIONING == "transitioning"

DefaultState ==
    [schedule_state |-> OFF, override_until |-> None,
     last_transition |-> None, current_brightness |-> 0]

DefaultConfig == [enabled |-> TRUE, start_time |-> <<7, 0>>, end_time |-> <<20, 0>>]

is_within_schedule_closed_end(self, current_time) ==
    IF TimeLE(self.start_time, self.end_time)
    THEN TimeLE(self.start_time, current_time) /\ TimeLE(current_time, self.end_time)
    ELSE TimeLE(self.start_time, current_time) \/ TimeLE(current_time, self.end_time)

is_within_schedule(self, current_time) ==
    IF TimeLE(self.start_time, self.end_time)
    THEN TimeLE(self.start_time, current_time) /\ TimeLT(current_time, self.end_time)
    ELSE TimeLE(self.start_time, current_time) \/ TimeLT(current_time, self.end_time)

should_lights_be_on(self, t) ==
    IF ~self.enabled THEN TRUE
    ELSE IF self.state.override_until # None /\ t < Val(self.state.override_until)
         THEN self.state.schedule_state \in {OVERRIDE_ON, ON}
         ELSE is_within_schedule(self, get_current_time(t))

get_current_brightness_multiplier(self) ==
    IF self.state.schedule_state \in {OFF, OVERRIDE_OFF} THEN 0
    ELSE IF self.state.schedule_state = TRANSITIONING
         THEN self.state.current_brightness
         ELSE 1000

set_override(self, turn_on, duration_seconds, t) ==
    [self EXCEPT !.state.override_until = Some(t + duration_seconds * 10),
                 !.state.schedule_state =
                     IF turn_on THEN OVERRIDE_ON ELSE OVERRIDE_OFF]

clear_override_keeps_expiry(self, t) ==
    IF should_lights_be_on([self EXCEPT !.state.override_until = None], t)
    THEN [self EXCEPT !.state.schedule_state = ON,
                      !.state.current_brightness = 1000]
    ELSE [self EXCEPT !.state.schedule_state = OFF,
                      !.state.current_brightness = 0]

clear_override(self, t) ==
    LET cleared == [self EXCEPT !.state.override_until = None]
    IN IF should_lights_be_on(cleared, t)
       THEN [cleared EXCEPT !.state.schedule_state = ON,
                            !.state.current_brightness = 1000]
       ELSE [cleared EXCEPT !.state.schedule_state = OFF,
                            !.state.current_brightness = 0]

reload_config_if_changed(self, cfg) ==
    IF cfg.mtime > self.config_mtime
    THEN [self EXCEPT !.enabled = cfg.doc.enabled,
                      !.start_time = parse_time(cfg.doc.start_time),
                      !.end_time = parse_time(cfg.doc.end_time),
                      !.config_mtime = cfg.mtime]
    ELSE self

update_config(self, enabled, start_time, end_time) ==
    [self EXCEPT !.enabled = enabled,
                 !.start_time = parse_time(start_time),
                 !.end_time = parse_time(end_time),
                 !.last_check = 0]

update_ignores_current_state(self, cfg, t) ==
    IF t - self.last_check < check_interval
    THEN [self |-> self, ret |-> "none", saved |-> FALSE]
    ELSE
      LET s1 == reload_config_if_changed([self EXCEPT !.last_check = t], cfg)
      IN IF s1.state.override_until # None /\ t >= Val(s1.state.override_until)
         THEN LET s2 == clear_override(s1, t)
              IN [self |-> s2,
                  ret |-> IF should_lights_be_on(s2, t) THEN "fade_in" ELSE "fade_out",
                  saved |-> TRUE]
         ELSE IF should_lights_be_on(s1, t)
              THEN [self |-> [s1 EXCEPT !.state.schedule_state = ON],
                    ret |-> "fade_in", saved |-> TRUE]
              ELSE [self |-> [s1 EXCEPT !.state.schedule_state = OFF],
                    ret |-> "fade_out", saved |-> TRUE]

update_enters_transitioning(self, cfg, t) ==
    IF t - self.last_check < check_interval
    THEN [self |-> self, ret |-> "none", saved |-> FALSE]
    ELSE
      LET s1 == reload_config_if_changed([self EXCEPT !.last_check = t], cfg)
      IN IF s1.state.override_until # None /\ t >= Val(s1.state.override_until)
         THEN LET s2 == clear_override(s1, t)
              IN [self |-> s2,
                  ret |-> IF should_lights_be_on(s2, t) THEN "fade_in" ELSE "fade_out",
                  saved |-> TRUE]
         ELSE
           LET should_be_on == should_lights_be_on(s1, t)
               is_currently_on == s1.state.schedule_state \in {ON, OVERRIDE_ON}
           IN IF should_be_on /\ ~is_currently_on
              THEN [self |-> [s1 EXCEPT !.state.schedule_state = TRANSITIONING,
                                        !.state.current_brightness = 500],
                    ret |-> "fade_in", saved |-> TRUE]
              ELSE IF ~should_be_on /\ is_currently_on
              THEN [self |-> [s1 EXCEPT !.state.schedule_state = OFF],
                    ret |-> "fade_out", saved |-> TRUE]
              ELSE [self |-> s1, ret |-> "none", saved |-> FALSE]

(* Scheduler.update(): the object after the call, the value returned and   *)
(* whether save_state() ran.                                               *)
update(self, cfg, t) ==
    IF t - self.last_check < check_interval
    THEN [self |-> self, ret |-> "none", saved |-> FALSE]
    ELSE
      LET s1 == reload_config_if_changed([self EXCEPT !.last_check = t], cfg)
      IN IF s1.state.override_until # None /\ t >= Val(s1.state.override_until)
         THEN LET s2 == clear_override(s1, t)
              IN [self |-> s2,
                  ret |-> IF should_lights_be_on(s2, t) THEN "fade_in" ELSE "fade_out",
                  saved |-> TRUE]
         ELSE
           LET should_be_on == should_lights_be_on(s1, t)
               is_currently_on == s1.state.schedule_state \in {ON, OVERRIDE_ON}
           IN IF should_be_on /\ ~is_currently_on
              THEN [self |-> [s1 EXCEPT !.state.schedule_state = ON],
                    ret |-> "fade_in", saved |-> TRUE]
              ELSE IF ~should_be_on /\ is_currently_on
              THEN [self |-> [s1 EXCEPT !.state.schedule_state = OFF],
                    ret |-> "fade_out", saved |-> TRUE]
              ELSE [self |-> s1, ret |-> "none", saved |-> FALSE]

get_boot_behavior(self, t) ==
    IF ~self.enabled THEN "fade_in"
    ELSE IF should_lights_be_on(self, t) THEN "fade_in" ELSE "stay_off"

(* Scheduler.__init__: state from the state file, fields from the config.  *)
NewScheduler(persisted, cfg) ==
    [state |-> persisted,
     enabled |-> cfg.doc.enabled,
     start_time |-> parse_time(cfg.doc.start_time),
     end_time |-> parse_time(cfg.doc.end_time),
     config_mtime |-> cfg.mtime,
     last_check |-> 0]

----------------------------------------------------------------------------
(* FadeController *)

Min(a, b) == IF a < b THEN a ELSE b
Max(a, b) == IF a > b THEN a ELSE b
Abs(a) == IF a < 0 THEN -a ELSE a

(* (sin((progress - 0.5) * pi) + 1) / 2 in thousandths, tabulated every    *)
(* 0.05 of progress and interpolated linearly in between.                  *)
SineEase ==
    <<0, 6, 24, 55, 95, 146, 206, 273, 345, 422, 500,
      578, 655, 727, 794, 854, 905, 945, 976, 994, 1000>>

smooth_progress(progress) ==
    LET i == progress \div 50
        lo == SineEase[i + 1]
    IN IF i >= 20 THEN 1000
       ELSE lo + ((SineEase[i + 2] - lo) * (progress % 50)) \div 50

NewFadeController ==
    [fading |-> FALSE, fade_start |-> 0, fade_duration |-> 0,
     fade_from |-> 0, fade_to |-> 0]

start_fade(self, from_brightness, to_brightness, duration, t) ==
    [fading |-> TRUE, fade_start |-> t, fade_duration |-> duration,
     fade_from |-> from_brightness, fade_to |-> to_brightness]

fade_update_never_ends(self, t) ==
    IF ~self.fading THEN [self |-> self, ret |-> None]
    ELSE
      LET elapsed == t - self.fade_start
          progress == Min(1000, (elapsed * 1000) \div self.fade_duration)
          delta == self.fade_to - self.fade_from
          current_brightness ==
              IF delta >= 0
              THEN self.fade_from + (delta * smooth_progress(progress)) \div 1000
              ELSE self.fade_from - ((-delta) * smooth_progress(progress)) \div 1000
      IN IF progress > 1000
         THEN [self |-> [self EXCEPT !.fading = FALSE], ret |-> Some(self.fade_to)]
         ELSE [self |-> self, ret |-> Some(current_brightness)]

(* FadeController.update(): the object after the call and the value        *)
(* returned (None, or the brightness).                                     *)
fade_update(self, t) ==
    IF ~self.fading THEN [self |-> self, ret |-> None]
    ELSE
      LET elapsed == t - self.fade_start
          progress == Min(1000, (elapsed * 1000) \div self.fade_duration)
          delta == self.fade_to - self.fade_from
          current_brightness ==
              IF delta >= 0
              THEN self.fade_from + (delta * smooth_progress(progress)) \div 1000
              ELSE self.fade_from - ((-delta) * smooth_progress(progress)) \div 1000
      IN IF progress >= 1000
         THEN [self |-> [self EXCEPT !.fading = FALSE], ret |-> Some(self.fade_to)]
         ELSE [self |-> self, ret |-> Some(current_brightness)]

is_fading(self) == self.fading

----------------------------------------------------------------------------
(* Control document (shared_state.py) as one process sees it *)

Effects ==
    <<"system_pulse", "load_rainbow", "random_sparkle", "thermal_gradient", "load_bars">>
available_effects == {Effects[i] : i \in 1..Len(Effects)}

DefaultControl ==
    [effect |-> "system_pulse", brightness |-> 100, enabled |-> TRUE,
     override |-> None, demo_mode |-> FALSE, timestamp |-> 0]

(* The file is None while it does not exist, else Some(document). *)
read_control_state(file) == IF file = None THEN DefaultControl ELSE Val(file)

write_control_state(state, t) == Some([state EXCEPT !.timestamp = t])

(* update_control_state, called with one keyword argument *)
update_control_state(file, field, value, t) ==
    write_control_state([read_control_state(file) EXCEPT ![field] = value], t)

----------------------------------------------------------------------------
(* LightBarController *)

demo_mode_duration == 300

(* __init__ with the default configuration, at time t *)
NewController(sched, t) ==
    [running |-> FALSE,
     current_effect_name |-> "system_pulse",
     current_effect |-> None,
     brightness_multiplier |->
         IF get_boot_behavior(sched, t) = "fade_in" THEN 1000 ELSE 0,
     demo_mode_active |-> FALSE,
     demo_mode_start_time |-> 0,
     demo_mode_previous_effect |-> None,
     system_metrics |-> [cpu_percent |-> 0, ram_percent |-> 0, temperature |-> 50],
     frame_count |-> 0,
     start_time |-> t,
     last_metrics_update |-> 0,
     oled_error_mode_active |-> FALSE,
     raw_bot |-> [bus |-> "open"],
     error_count |-> 0,
     last_error_log |-> 0,
     last_control_check |-> 0]

(* create_effect: the effect object is its class and its start_time *)
set_effect_unchecked(self, effect_name, t) ==
    [self EXCEPT !.current_effect_name = effect_name,
                 !.current_effect = Some([name |-> effect_name, start_time |-> t])]

set_effect(self, effect_name, t) ==
    IF effect_name \notin available_effects THEN self
    ELSE [self EXCEPT !.current_effect_name = effect_name,
                      !.current_effect = Some([name |-> effect_name, start_time |-> t])]

start_demo_mode(self, t) ==
    IF self.demo_mode_active THEN self
    ELSE set_effect([self EXCEPT !.demo_mode_active = TRUE,
                                 !.demo_mode_start_time = t,
                                 !.demo_mode_previous_effect =
                                     Some(self.current_effect_name)],
                    Effects[1], t)

end_demo_mode_keeps_effect(self, t) ==
    [self EXCEPT !.demo_mode_active = FALSE, !.demo_mode_previous_effect = None]

end_demo_mode(self, t) ==
    LET ended == [self EXCEPT !.demo_mode_active = FALSE]
        back == IF self.demo_mode_previous_effect # None
                THEN set_effect(ended, Val(self.demo_mode_previous_effect), t)
                ELSE ended
    IN [back EXCEPT !.demo_mode_previous_effect = None]

update_demo_mode(self, t) ==
    IF ~self.demo_mode_active THEN self
    ELSE
      LET elapsed == t - self.demo_mode_start_time
          effect_duration == demo_mode_duration \div Len(Effects)
          effect_index == Min(elapsed \div effect_duration, Len(Effects) - 1)
          target_effect == Effects[effect_index + 1]
      IN IF elapsed >= demo_mode_duration THEN end_demo_mode(self, t)
         ELSE IF target_effect # self.current_effect_name
              THEN set_effect(self, target_effect, t)
              ELSE self

(* update_effect: whether a frame of the current effect is rendered *)
update_effect(self) ==
    self.current_effect # None /\ ~(self.brightness_multiplier <= 0)

check_control_commands_keeps_flag(self, fade, file, t) ==
    LET control == read_control_state(file)
        disabled ==
            IF self.brightness_multiplier > 0
            THEN [self EXCEPT !.brightness_multiplier = 0]
            ELSE self
        switched ==
            IF control.effect # self.current_effect_name
            THEN set_effect(self, control.effect, t)
            ELSE self
        new_brightness == control.brightness * 10
        applied ==
            IF ~is_fading(fade)
               /\ Abs(new_brightness - switched.brightness_multiplier) > 10
            THEN [switched EXCEPT !.brightness_multiplier = new_brightness]
            ELSE switched
        polled == IF ~control.enabled THEN disabled ELSE applied
    IN [self |-> IF control.demo_mode THEN start_demo_mode(polled, t) ELSE polled,
        file |-> file,
        turned_off |-> ~control.enabled /\ self.brightness_multiplier > 0,
        enabled |-> control.enabled]

check_control_commands_ignores_fade(self, fade, file, t) ==
    LET control == read_control_state(file)
        disabled ==
            IF self.brightness_multiplier > 0
            THEN [self EXCEPT !.brightness_multiplier = 0]
            ELSE self
        switched ==
            IF control.effect # self.current_effect_name
            THEN set_effect(self, control.effect, t)
            ELSE self
        new_brightness == control.brightness * 10
        applied ==
            IF Abs(new_brightness - switched.brightness_multiplier) > 10
            THEN [switched EXCEPT !.brightness_multiplier = new_brightness]
            ELSE switched
        polled == IF ~control.enabled THEN disabled ELSE applied
    IN [self |-> IF control.demo_mode THEN start_demo_mode(polled, t) ELSE polled,
        file |-> IF control.demo_mode
                 THEN update_control_state(file, "demo_mode", FALSE, t)
                 ELSE file,
        turned_off |-> ~control.enabled /\ self.brightness_multiplier > 0,
        enabled |-> control.enabled]

(* check_control_commands: the controller after the poll, the control     *)
(* file after the demo flag's write-back, and whether bot.turn_off() ran. *)
check_control_commands(self, fade, file, t) ==
    LET control == read_control_state(file)
        disabled ==
            IF self.brightness_multiplier > 0
            THEN [self EXCEPT !.brightness_multiplier = 0]
            ELSE self
        switched ==
            IF control.effect # self.current_effect_name
            THEN set_effect(self, control.effect, t)
            ELSE self
        new_brightness == control.brightness * 10
        applied ==
            IF ~is_fading(fade)
               /\ Abs(new_brightness - switched.brightness_multiplier) > 10
            THEN [switched EXCEPT !.brightness_multiplier = new_brightness]
            ELSE switched
        polled == IF ~control.enabled THEN disabled ELSE applied
    IN [self |-> IF control.demo_mode THEN start_demo_mode(polled, t) ELSE polled,
        file |-> IF control.demo_mode
                 THEN update_control_state(file, "demo_mode", FALSE, t)
                 ELSE file,
        turned_off |-> ~control.enabled /\ self.brightness_multiplier > 0,
        enabled |-> control.enabled]

(* One iteration of run()'s loop at loop_start = t: scheduler tick, fade,  *)
(* control poll, demo update, effect update, frame count.                  *)
loop_iteration(self, sched, fade, cfg, file, t) ==
    LET tick == update(sched, cfg, t)
        fade1 == IF tick.ret = "fade_in"
                 THEN start_fade(fade, 0, 1000, fade_in_duration, t)
                 ELSE IF tick.ret = "fade_out"
                 THEN start_fade(fade, 1000, 0, fade_out_duration, t)
                 ELSE fade
        faded == fade_update(fade1, t)
        c1 == IF faded.ret # None
              THEN [self EXCEPT !.brightness_multiplier = Val(faded.ret)]
              ELSE self
        poll == t - self.last_control_check > control_check_interval
        checked == check_control_commands(c1, faded.self, file, t)
        c2 == IF poll THEN [checked.self EXCEPT !.last_control_check = t] ELSE c1
        c3 == update_demo_mode(c2, t)
    IN [self |-> [c3 EXCEPT !.frame_count = c3.frame_count + 1],
        scheduler |-> tick.self,
        saved |-> tick.saved,
        fade |-> faded.self,
        file |-> IF poll THEN checked.file ELSE file,
        action |-> tick.ret,
        polled |-> poll,
        saw_disabled |-> poll /\ ~checked.enabled,
        turned_off |-> poll /\ checked.turned_off,
        rendered |-> update_effect(c3)]

----------------------------------------------------------------------------
(* The objects that a specification leaves alone *)

IdleCall == [op |-> "init", pre |-> None, ret |-> "none", ov |-> None]
IdleFade == NewFadeController
IdleController == [running |-> FALSE]
IdleControl == None
IdleFs == None
IdleProcs == None
IdleOled == None
IdleTelemetry == None

(* Clock(h, m, s): the time.time() of h:m:s on the model's second day *)
Clock(h, m, s) == (((24 + h) * 60 + m) * 60 + s) * 10

Windows == { <<<<7, 0>>, <<20, 0>>>>, <<<<20, 0>>, <<7, 0>>>> }
ConfigDocs ==
    { [enabled |-> e, start_time |-> w[1], end_time |-> w[2]] :
        e \in BOOLEAN, w \in Windows }

----------------------------------------------------------------------------
(* SpecScheduler: one Scheduler object and its callers *)

SchedBoot == Clock(6, 58, 30)
SchedSteps == {300, 600}
OverrideDurations == {60, 120}

SchedInit ==
    /\ now = SchedBoot
    /\ config_file \in { [doc |-> d, mtime |-> SchedBoot - 1] : d \in ConfigDocs }
    /\ state_file = DefaultState
    /\ scheduler = NewScheduler(state_file, config_file)
    /\ call = IdleCall
    /\ fade_controller = IdleFade
    /\ controller = IdleController
    /\ control_file = IdleControl
    /\ fs = IdleFs
    /\ procs = IdleProcs
    /\ oled_sync = IdleOled
    /\ telemetry_file = IdleTelemetry

SchedOthers ==
    <<fade_controller, controller, control_file, fs, procs, oled_sync,
      telemetry_file>>

SchedAdvance ==
    /\ \E d \in SchedSteps :
          /\ now + d <= SchedBoot + MaxElapsed
          /\ now' = now + d
    /\ call' = [call EXCEPT !.op = "advance", !.pre = None, !.ret = "none"]
    /\ UNCHANGED <<scheduler, state_file, config_file, SchedOthers>>

UpdateCall ==
    LET r == update(scheduler, config_file, now)
        expiry == /\ now - scheduler.last_check >= check_interval
                  /\ scheduler.state.override_until # None
                  /\ now >= Val(scheduler.state.override_until)
    IN /\ scheduler' = r.self
       /\ state_file' = IF r.saved THEN r.self.state ELSE state_file
       /\ call' = [op |-> "update", pre |-> Some(scheduler), ret |-> r.ret,
                   ov |-> IF expiry THEN None ELSE call.ov]
       /\ UNCHANGED <<now, config_file, SchedOthers>>

SetOverrideCall ==
    \E turn_on \in BOOLEAN, d \in OverrideDurations :
       /\ scheduler' = set_override(scheduler, turn_on, d, now)
       /\ state_file' = scheduler'.state
       /\ call' = [op |-> "set_override", pre |-> Some(scheduler), ret |-> "none",
                   ov |-> Some(turn_on)]
       /\ UNCHANGED <<now, config_file, SchedOthers>>

ClearOverrideCall ==
    /\ scheduler' = clear_override(scheduler, now)
    /\ state_file' = scheduler'.state
    /\ call' = [op |-> "clear_override", pre |-> Some(scheduler), ret |-> "none",
                ov |-> None]
    /\ UNCHANGED <<now, config_file, SchedOthers>>

UpdateConfigCall ==
    \E d \in ConfigDocs :
       /\ d # config_file.doc
       /\ scheduler' = update_config(scheduler, d.enabled, d.start_time, d.end_time)
       /\ config_file' = [doc |-> d, mtime |-> now]
       /\ call' = [call EXCEPT !.op = "update_config", !.pre = Some(scheduler),
                               !.ret = "none"]
       /\ UNCHANGED <<now, state_file, SchedOthers>>

SchedNext ==
    \/ SchedAdvance
    \/ UpdateCall
    \/ SetOverrideCall
    \/ ClearOverrideCall
    \/ UpdateConfigCall

SpecScheduler == SchedInit /\ [][SchedNext]_vars

----------------------------------------------------------------------------
(* Claims about the Scheduler, checked under SpecScheduler *)

(* The window rule in seconds of the day: [start, end), wrapping midnight  *)
(* when start > end; a disabled schedule is always on.                     *)
SecondOfDay(t) == (t \div 10) % 86400
StartSecond(self) == (self.start_time.hour * 60 + self.start_time.minute) * 60
EndSecond(self) == (self.end_time.hour * 60 + self.end_time.minute) * 60
WindowSaysOn(self, t) ==
    \/ ~self.enabled
    \/ IF StartSecond(self) <= EndSecond(self)
       THEN StartSecond(self) <= SecondOfDay(t) /\ SecondOfDay(t) < EndSecond(self)
       ELSE SecondOfDay(t) >= StartSecond(self) \/ SecondOfDay(t) < EndSecond(self)

OverrideUnexpired ==
    /\ call.ov # None
    /\ scheduler.state.override_until # None
    /\ now < Val(scheduler.state.override_until)

UpdateEvaluated ==
    /\ call.op = "update"
    /\ now - Val(call.pre).last_check >= check_interval

ExpiryTick ==
    /\ UpdateEvaluated
    /\ Val(call.pre).state.override_until # None
    /\ now >= Val(Val(call.pre).state.override_until)

(* C3: while an override set by set_override(turn_on, d) is unexpired,     *)
(* should_lights_be_on() equals turn_on, schedule_state stays at the       *)
(* override state and an update() tick returns no event, for every window  *)
(* configuration, a disabled schedule included.                            *)
C3_OverrideForcesState ==
    OverrideUnexpired =>
        /\ should_lights_be_on(scheduler, now) = Val(call.ov)
        /\ scheduler.state.schedule_state =
               IF Val(call.ov) THEN OVERRIDE_ON ELSE OVERRIDE_OFF
        /\ (call.op = "update" => call.ret = "none")

(* C4: the first evaluated update() tick at or after an override's expiry  *)
(* clears override_until, sets schedule_state to ON or OFF as the window   *)
(* rule says and returns fade_in iff the lights should now be on; a tick   *)
(* that finds no override and a state agreeing with the window rule (as    *)
(* the expiry tick leaves it) returns no event.                            *)
C4_ExpiryEmitsOneEvent ==
    /\ ExpiryTick =>
          /\ scheduler.state.override_until = None
          /\ scheduler.state.schedule_state =
                 IF WindowSaysOn(scheduler, now) THEN ON ELSE OFF
          /\ call.ret = IF WindowSaysOn(scheduler, now) THEN "fade_in" ELSE "fade_out"
    /\ ( /\ UpdateEvaluated
         /\ Val(call.pre).state.override_until = None
         /\ Val(call.pre).state.schedule_state =
                IF WindowSaysOn(scheduler, now) THEN ON ELSE OFF )
       => /\ call.ret = "none"
          /\ scheduler.state = Val(call.pre).state

C4_Witness ==
    /\ ExpiryTick
    /\ Val(call.pre).state.schedule_state = OVERRIDE_ON
    /\ scheduler.enabled
    /\ call.ret = "fade_out"

(* C5: update() returns an edge event if and only if the call changed      *)
(* schedule_state.                                                         *)
C5_EventIffStateChange ==
    call.op = "update" =>
        ( call.ret # "none"
          <=> scheduler.state.schedule_state # Val(call.pre).state.schedule_state )

LightsWereOn == Val(call.pre).state.schedule_state \in {ON, OVERRIDE_ON}
LightsWereOff == Val(call.pre).state.schedule_state \in {OFF, OVERRIDE_OFF}

(* C34 as stated: update() returns fade_in only when the lights were off   *)
(* before the call and fade_out only when they were on.                    *)
C34_EventMatchesPriorState ==
    call.op = "update" =>
        /\ call.ret = "fade_in" => LightsWereOff
        /\ call.ret = "fade_out" => LightsWereOn

(* C34 amended: at every tick other than the one that clears an expired    *)
(* override, update() returns fade_in only when the lights were off before *)
(* the call and fade_out only when they were on; the expiry tick returns   *)
(* its event by the re-evaluation alone, whatever the state was.           *)
C34_EventMatchesPriorStateOffExpiry ==
    /\ (call.op = "update" /\ ~ExpiryTick) =>
          /\ call.ret = "fade_in" => LightsWereOff
          /\ call.ret = "fade_out" => LightsWereOn
    /\ ExpiryTick =>
          call.ret = IF should_lights_be_on(scheduler, now) THEN "fade_in"
                     ELSE "fade_out"

C34_Witness ==
    /\ UpdateEvaluated
    /\ ~ExpiryTick
    /\ call.ret = "fade_out"
    /\ Val(call.pre).state.schedule_state = ON

(* C39: schedule_state is never TRANSITIONING in a state reached from the  *)
(* default state through update(), set_override() and clear_override(), so *)
(* get_current_brightness_multiplier() returns 0.0 or 1.0.                 *)
C39_NeverTransitioning ==
    /\ scheduler.state.schedule_state \in {ON, OFF, OVERRIDE_ON, OVERRIDE_OFF}
    /\ state_file.schedule_state \in {ON, OFF, OVERRIDE_ON, OVERRIDE_OFF}
    /\ get_current_brightness_multiplier(scheduler) \in {0, 1000}

C39_Witness ==
    /\ call.op = "update"
    /\ call.ret = "fade_in"
    /\ Val(call.pre).state.schedule_state = OVERRIDE_OFF
    /\ scheduler.state.schedule_state = ON
    /\ get_current_brightness_multiplier(scheduler) = 1000

----------------------------------------------------------------------------
(* SpecWithin: is_within_schedule on sampled windows and times of day *)

SampleTimes ==
    { <<0, 0>>, <<3, 0>>, <<6, 59>>, <<7, 0>>, <<10, 0>>,
      <<19, 59>>, <<20, 0>>, <<23, 0>>, <<23, 59>> }
SampleSeconds == {0, 59}

WithinInit ==
    /\ \E hm \in SampleTimes, sec \in SampleSeconds : now = Clock(hm[1], hm[2], sec)
    /\ \E st \in SampleTimes, en \in SampleTimes :
          config_file = [doc |-> [enabled |-> TRUE, start_time |-> st, end_time |-> en],
                         mtime |-> 0]
    /\ state_file = DefaultState
    /\ scheduler = NewScheduler(state_file, config_file)
    /\ call = IdleCall
    /\ fade_controller = IdleFade
    /\ controller = IdleController
    /\ control_file = IdleControl
    /\ fs = IdleFs
    /\ procs = IdleProcs
    /\ oled_sync = IdleOled
    /\ telemetry_file = IdleTelemetry

IsWithinScheduleCall ==
    /\ call.op = "init"
    /\ call' = [op |-> "is_within_schedule", pre |-> Some(scheduler),
                ret |-> is_within_schedule(scheduler, get_current_time(now)),
                ov |-> None]
    /\ UNCHANGED <<now, scheduler, state_file, config_file, fade_controller,
                   controller, control_file, fs, procs,
                   oled_sync, telemetry_file>>

WithinNext == IsWithinScheduleCall

SpecWithin == WithinInit /\ [][WithinNext]_vars

MinuteOfDay(hm) == hm[1] * 60 + hm[2]
NowMinute == (now \div 600) % 1440
Window(st, en) == config_file.doc.start_time = st /\ config_file.doc.end_time = en
At(h, m) == NowMinute = h * 60 + m

(* C6: is_within_schedule is true exactly when start <= t < end if         *)
(* start <= end, and exactly when t >= start or t < end if start > end,    *)
(* at minute resolution; 07:00-20:00 contains 07:00 and 19:59 but not      *)
(* 06:59 or 20:00, and 20:00-07:00 contains 23:00 and 03:00 but not 10:00. *)
C6_WithinSchedule ==
    call.op = "is_within_schedule" =>
        LET st == MinuteOfDay(config_file.doc.start_time)
            en == MinuteOfDay(config_file.doc.end_time)
        IN /\ call.ret = IF st <= en
                         THEN st <= NowMinute /\ NowMinute < en
                         ELSE NowMinute >= st \/ NowMinute < en
           /\ Window(<<7, 0>>, <<20, 0>>) /\ (At(7, 0) \/ At(19, 59)) => call.ret
           /\ Window(<<7, 0>>, <<20, 0>>) /\ (At(6, 59) \/ At(20, 0)) => ~call.ret
           /\ Window(<<20, 0>>, <<7, 0>>) /\ (At(23, 0) \/ At(3, 0)) => call.ret
           /\ Window(<<20, 0>>, <<7, 0>>) /\ At(10, 0) => ~call.ret

C6_Witness ==
    /\ call.op = "is_within_schedule"
    /\ Window(<<20, 0>>, <<7, 0>>)
    /\ At(3, 0)
    /\ call.ret = TRUE

----------------------------------------------------------------------------
(* SpecFade: one FadeController object and its callers *)

FadeBoot == Clock(12, 0, 0)
FadeSteps == {5, 10, 25}
FadeLevels == {0, 500, 1000}
FadeDurations == {fade_out_duration, fade_in_duration}

FadeInit ==
    /\ now = FadeBoot
    /\ fade_controller = NewFadeController
    /\ call = IdleCall
    /\ config_file = [doc |-> DefaultConfig, mtime |-> 0]
    /\ state_file = DefaultState
    /\ scheduler = NewScheduler(state_file, config_file)
    /\ controller = IdleController
    /\ control_file = IdleControl
    /\ fs = IdleFs
    /\ procs = IdleProcs
    /\ oled_sync = IdleOled
    /\ telemetry_file = IdleTelemetry

FadeOthers ==
    <<scheduler, state_file, config_file, controller, control_file, fs, procs,
                   oled_sync, telemetry_file>>

FadeAdvance ==
    /\ \E d \in FadeSteps :
          /\ now + d <= FadeBoot + MaxFadeElapsed
          /\ now' = now + d
    /\ call' = [call EXCEPT !.op = "advance", !.pre = None, !.ret = "none"]
    /\ UNCHANGED <<fade_controller, FadeOthers>>

StartFadeCall ==
    \E from \in FadeLevels, to \in FadeLevels, d \in FadeDurations :
       /\ fade_controller' = start_fade(fade_controller, from, to, d, now)
       /\ call' = [call EXCEPT !.op = "start_fade", !.pre = Some(fade_controller),
                               !.ret = "none"]
       /\ UNCHANGED <<now, FadeOthers>>

FadeUpdateCall ==
    LET r == fade_update(fade_controller, now)
    IN /\ fade_controller' = r.self
       /\ call' = [call EXCEPT !.op = "fade_update", !.pre = Some(fade_controller),
                               !.ret = r.ret]
       /\ UNCHANGED <<now, FadeOthers>>

FadeNext == FadeAdvance \/ StartFadeCall \/ FadeUpdateCall

SpecFade == FadeInit /\ [][FadeNext]_vars

FadeDue ==
    /\ call.op = "fade_update"
    /\ Val(call.pre).fading
    /\ now - Val(call.pre).fade_start >= Val(call.pre).fade_duration

(* C8: after start_fade(from, to, d) with d > 0, the first update() at     *)
(* elapsed >= d returns exactly `to` and makes is_fading() false; an       *)
(* update() of an idle controller returns none and leaves it idle, so      *)
(* only another start_fade makes update() return a value again.            *)
C8_FadeEndsAtTarget ==
    /\ FadeDue =>
          /\ call.ret = Some(Val(call.pre).fade_to)
          /\ ~is_fading(fade_controller)
    /\ (call.op = "fade_update" /\ ~Val(call.pre).fading) =>
          /\ call.ret = None
          /\ ~is_fading(fade_controller)

C8_Witness ==
    /\ FadeDue
    /\ now - Val(call.pre).fade_start > Val(call.pre).fade_duration
    /\ Val(call.pre).fade_from = 1000
    /\ call.ret = Some(0)
    /\ ~is_fading(fade_controller)

----------------------------------------------------------------------------
(* Spec: the orchestrator process (LightBarController.run) and the control *)
(* plane's writes to the control document                                  *)

Boot == Clock(6, 59, 0)
LoopSteps == {update_interval, 10, 600}
ApiBrightness == {50, 100}
ApiModes == {"system_pulse", "load_rainbow"}

(* What an earlier run may have left in the state file *)
PersistedStates ==
    {DefaultState, [DefaultState EXCEPT !.schedule_state = ON]}
    \cup {[DefaultState EXCEPT !.schedule_state = OVERRIDE_ON,
                                !.override_until = Some(Boot - 600)],
           [DefaultState EXCEPT !.schedule_state = OVERRIDE_OFF,
                                !.override_until = Some(Boot + 300)]}

LoopCall ==
    [op |-> "init", action |-> "none", polled |-> FALSE, rendered |-> FALSE,
     turned_off |-> FALSE, disabled_seen |-> FALSE, api_calls |-> 0]

Init ==
    /\ now = Boot
    /\ config_file \in { [doc |-> d, mtime |-> Boot - 1] : d \in ConfigDocs }
    /\ state_file \in PersistedStates
    /\ scheduler = NewScheduler(state_file, config_file)
    /\ fade_controller = NewFadeController
    /\ controller = NewController(scheduler, now)
    /\ control_file = None
    /\ fs = IdleFs
    /\ procs = IdleProcs
    /\ oled_sync = IdleOled
    /\ telemetry_file = IdleTelemetry
    /\ call = LoopCall

(* run(): up to the loop *)
RunStart ==
    /\ ~controller.running
    /\ controller' = set_effect([controller EXCEPT !.running = TRUE],
                                controller.current_effect_name, now)
    /\ call' = [call EXCEPT !.op = "run"]
    /\ UNCHANGED <<now, scheduler, state_file, config_file, fade_controller,
                   control_file, fs, procs, oled_sync, telemetry_file>>

(* One loop iteration, then the sleep up to the next one *)
LoopIteration ==
    /\ controller.running
    /\ controller.frame_count < MaxFrames
    /\ \E d \in LoopSteps :
          LET r == loop_iteration(controller, scheduler, fade_controller,
                                  config_file, control_file, now)
          IN /\ controller' = r.self
             /\ scheduler' = r.scheduler
             /\ state_file' = IF r.saved THEN r.scheduler.state ELSE state_file
             /\ fade_controller' = r.fade
             /\ control_file' = r.file
             /\ call' = [call EXCEPT
                           !.op = "loop", !.action = r.action, !.polled = r.polled,
                           !.rendered = r.rendered, !.turned_off = r.turned_off,
                           !.disabled_seen = r.saw_disabled
                               \/ (call.disabled_seen
                                   /\ ~read_control_state(control_file).enabled)]
             /\ now' = now + d
    /\ UNCHANGED <<config_file, fs, procs, oled_sync, telemetry_file>>

(* A control-plane request: update_control_state with one field *)
ApiWrite(field, value) ==
    /\ call.api_calls < MaxApiCalls
    /\ control_file' = update_control_state(control_file, field, value, now)
    /\ call' = [call EXCEPT !.op = "api", !.api_calls = call.api_calls + 1,
                            !.disabled_seen =
                                call.disabled_seen /\ ~(field = "enabled" /\ value)]
    /\ UNCHANGED <<now, scheduler, state_file, config_file, fade_controller,
                   controller, fs, procs, oled_sync, telemetry_file>>

ApiSetMode == \E mode \in ApiModes : ApiWrite("effect", mode)
ApiSetBrightness == \E b \in ApiBrightness : ApiWrite("brightness", b)
ApiToggle == \E enabled \in BOOLEAN : ApiWrite("enabled", enabled)
ApiDemoMode == ApiWrite("demo_mode", TRUE)

Next ==
    \/ RunStart
    \/ LoopIteration
    \/ ApiSetMode
    \/ ApiSetBrightness
    \/ ApiToggle
    \/ ApiDemoMode

Spec == Init /\ [][Next]_vars

----------------------------------------------------------------------------
(* Claims about the orchestrator loop, checked under Spec *)

(* C1: whenever the schedule is enabled, no override is set, the schedule  *)
(* state is OFF with the time of day outside the window and no fade is in  *)
(* progress, the brightness multiplier is 0, whatever the control document *)
(* requests.                                                               *)
C1_OffOutsideWindow ==
    ( /\ scheduler.enabled
      /\ scheduler.state.override_until = None
      /\ scheduler.state.schedule_state = OFF
      /\ ~WindowSaysOn(scheduler, now)
      /\ ~is_fading(fade_controller) )
    => controller.brightness_multiplier = 0

(* C2: from the control poll that observes enabled=false onward, and while *)
(* the document keeps saying so, every loop iteration ends with the        *)
(* brightness multiplier at 0 and renders no effect frame.                 *)
C2_DisabledStaysDark ==
    (call.op = "loop" /\ call.disabled_seen) =>
        /\ controller.brightness_multiplier = 0
        /\ ~call.rendered

(* C7: when the controller boots with the schedule disabled or the time    *)
(* inside the window, a fade from 0 up to full brightness has been started *)
(* by the end of the first loop iteration, whatever state was persisted.   *)
C7_BootFadesIn ==
    (controller.frame_count = 1 /\ WindowSaysOn(scheduler, controller.start_time)) =>
        /\ is_fading(fade_controller)
        /\ fade_controller.fade_from = 0
        /\ fade_controller.fade_to = 1000
        /\ fade_controller.fade_start = controller.start_time

----------------------------------------------------------------------------
(* The shared files at the level of the system calls the code makes.       *)
(* A file's data is a sequence of tokens standing for the bytes of the     *)
(* JSON text: one token per brace and per field, one more where the value  *)
(* prints longer, so that documents differ in length as their texts do.    *)

CONTROL_FILE == "/tmp/lightbar_control.json"
CONTROL_TMP == "/tmp/lightbar_control.json.tmp"
SHARED_STATE_FILE == "/tmp/jetson_state.json"
SHARED_STATE_TMP == "/tmp/jetson_state.json.tmp"
Paths == {CONTROL_FILE, CONTROL_TMP, SHARED_STATE_FILE, SHARED_STATE_TMP}

Token(k, v) == [key |-> k, value |-> v]

JsonValue(v) ==
    IF v = TRUE THEN "true" ELSE IF v = FALSE THEN "false" ELSE ToString(v)

LongTexts == {"false", "100", "\"thermal_gradient\""}

JsonField(k, text) ==
    IF text \in LongTexts THEN <<Token(k, text), Token(k, "+")>> ELSE <<Token(k, text)>>

(* json.dump of a control document *)
json_dump_control(d) ==
    <<Token("{", "")>>
    \o JsonField("effect", ToString(d.effect))
    \o JsonField("brightness", ToString(d.brightness))
    \o JsonField("enabled", JsonValue(d.enabled))
    \o JsonField("override", "null")
    \o JsonField("demo_mode", JsonValue(d.demo_mode))
    \o JsonField("timestamp", ToString(d.timestamp))
    \o <<Token("}", "")>>

(* json.dump of a telemetry document *)
json_dump_telemetry(d) ==
    <<Token("{", "")>>
    \o JsonField("timestamp", ToString(d.timestamp))
    \o JsonField("cpu_percent", ToString(d.cpu_percent))
    \o JsonField("health", ToString(d.health))
    \o <<Token("}", "")>>

FileBoot == Clock(12, 0, 0)
FileEffects == {"system_pulse", "thermal_gradient"}
ControlDocs ==
    { [effect |-> ef, brightness |-> b, enabled |-> en, override |-> None,
       demo_mode |-> dm, timestamp |-> ts] :
        ef \in FileEffects, b \in {50, 100}, en \in BOOLEAN, dm \in BOOLEAN,
        ts \in {0} \cup (FileBoot .. FileBoot + 2 * MaxRequests + MaxPolls) }

(* json.load: the document whose text the data is, if it is one *)
Parses(data) == \E d \in ControlDocs : json_dump_control(d) = data
json_load_control(data) == CHOOSE d \in ControlDocs : json_dump_control(d) = data

(* open(path, "w"): truncates the file's inode, or creates one *)
open_w(f, path) ==
    IF f.dir[path] # 0
    THEN [fs |-> [f EXCEPT !.data[f.dir[path]] = <<>>], fd |-> f.dir[path]]
    ELSE [fs |-> [dir |-> [f.dir EXCEPT ![path] = Len(f.data) + 1],
                  data |-> Append(f.data, <<>>)],
          fd |-> Len(f.data) + 1]

(* The write of the buffered text when the file is closed: at offset 0 of  *)
(* the inode the descriptor was opened on, over what is there.             *)
write_close(f, fd, text) ==
    [f EXCEPT !.data[fd] = text \o SubSeq(@, Len(text) + 1, Len(@))]

(* os.replace(src, dst); FileNotFoundError (caught by the caller) leaves   *)
(* the directory as it is.                                                 *)
os_replace(f, src, dst) ==
    IF f.dir[src] = 0 THEN f
    ELSE [f EXCEPT !.dir = [@ EXCEPT ![dst] = f.dir[src], ![src] = 0]]

exists(f, path) == f.dir[path] # 0
read_file(f, path) == IF exists(f, path) THEN f.data[f.dir[path]] ELSE <<>>

(* read_control_state on the file system: defaults when the file is        *)
(* missing or json.load raises.                                            *)
read_control_file(f) ==
    IF exists(f, CONTROL_FILE) /\ Parses(read_file(f, CONTROL_FILE))
    THEN json_load_control(read_file(f, CONTROL_FILE))
    ELSE DefaultControl

----------------------------------------------------------------------------
(* SpecFile: the processes around the two shared documents.  Two request   *)
(* handler threads of the web server and the orchestrator write the        *)
(* control document; the OLED monitor writes the telemetry document.       *)

Handlers == {"handler1", "handler2"}
ControlWriters == Handlers \cup {"renderer"}
Procs == ControlWriters \cup {"oled_monitor"}
Fields == {"effect", "brightness", "enabled", "demo_mode"}

ApiKwargs ==
    { [field |-> "effect", value |-> "thermal_gradient"],
      [field |-> "brightness", value |-> 50],
      [field |-> "enabled", value |-> FALSE],
      [field |-> "demo_mode", value |-> TRUE] }

NewProc(start) ==
    [pc |-> start, kw |-> [field |-> "", value |-> ""], state |-> DefaultControl,
     fd |-> 0, text |-> <<>>, count |-> 0]

FileCall ==
    [op |-> "init", proc |-> "", path |-> "", existed |-> FALSE, read |-> <<>>,
     latest |-> [f \in Fields |-> None], intended |-> {}]

FileInit ==
    /\ now = FileBoot
    /\ fs = [dir |-> [p \in Paths |-> 0], data |-> <<>>]
    /\ procs = [p \in Procs |->
                  IF p = "renderer" THEN NewProc("poll")
                  ELSE IF p = "oled_monitor" THEN NewProc("open")
                  ELSE NewProc("idle")]
    /\ call = FileCall
    /\ config_file = [doc |-> DefaultConfig, mtime |-> 0]
    /\ state_file = DefaultState
    /\ scheduler = NewScheduler(state_file, config_file)
    /\ fade_controller = IdleFade
    /\ controller = IdleController
    /\ control_file = IdleControl
    /\ oled_sync = IdleOled
    /\ telemetry_file = IdleTelemetry

FileOthers ==
    <<scheduler, state_file, config_file, fade_controller, controller, control_file,
      oled_sync, telemetry_file>>

Rest(p) == IF p = "renderer" THEN "poll" ELSE "idle"

(* A request arrives: the handler is about to call update_control_state *)
HandlerRequest(h) ==
    /\ procs[h].pc = "idle"
    /\ procs[h].count < MaxRequests
    /\ \E kw \in ApiKwargs :
          procs' = [procs EXCEPT ![h].pc = "read", ![h].kw = kw,
                                 ![h].count = @ + 1]
    /\ call' = [call EXCEPT !.op = "request", !.proc = h]
    /\ UNCHANGED <<now, fs, FileOthers>>

(* update_control_state: state = read_control_state() *)
UcsRead(p) ==
    /\ procs[p].pc = "read"
    /\ procs' = [procs EXCEPT ![p].pc = "open", ![p].state = read_control_file(fs)]
    /\ call' = [call EXCEPT !.op = "read", !.proc = p, !.path = CONTROL_FILE,
                            !.existed = exists(fs, CONTROL_FILE),
                            !.read = read_file(fs, CONTROL_FILE)]
    /\ UNCHANGED <<now, fs, FileOthers>>

(* state.update(kwargs); write_control_state: timestamp, open the temp file *)
UcsOpen(p) ==
    /\ procs[p].pc = "open"
    /\ LET doc == [procs[p].state EXCEPT ![procs[p].kw.field] = procs[p].kw.value,
                                        !.timestamp = now]
           o == open_w(fs, CONTROL_TMP)
       IN /\ fs' = o.fs
          /\ procs' = [procs EXCEPT ![p].pc = "write", ![p].fd = o.fd,
                                    ![p].text = json_dump_control(doc)]
          /\ call' = [call EXCEPT !.op = "open", !.proc = p,
                                  !.intended = @ \cup {json_dump_control(doc)}]
    /\ now' = now + 1
    /\ UNCHANGED FileOthers

(* json.dump and the close of the temp file *)
UcsWrite(p) ==
    /\ procs[p].pc = "write"
    /\ fs' = write_close(fs, procs[p].fd, procs[p].text)
    /\ procs' = [procs EXCEPT ![p].pc = "replace"]
    /\ call' = [call EXCEPT !.op = "write", !.proc = p]
    /\ UNCHANGED <<now, FileOthers>>

(* os.replace(temp_file, CONTROL_FILE), and the call returns *)
UcsReplace(p) ==
    /\ procs[p].pc = "replace"
    /\ fs' = os_replace(fs, CONTROL_TMP, CONTROL_FILE)
    /\ procs' = [procs EXCEPT ![p].pc = Rest(p)]
    /\ call' = [call EXCEPT !.op = "replace", !.proc = p,
                            !.latest[procs[p].kw.field] = Some(procs[p].kw.value)]
    /\ UNCHANGED <<now, FileOthers>>

(* check_control_commands: control = read_control_state(); a set demo flag *)
(* is written back with update_control_state(demo_mode=False)              *)
RendererPoll ==
    /\ procs["renderer"].pc = "poll"
    /\ procs["renderer"].count < MaxPolls
    /\ procs' = [procs EXCEPT
                   !["renderer"].count = @ + 1,
                   !["renderer"].kw = [field |-> "demo_mode", value |-> FALSE],
                   !["renderer"].pc =
                       IF read_control_file(fs).demo_mode THEN "read" ELSE "poll"]
    /\ call' = [call EXCEPT !.op = "read", !.proc = "renderer", !.path = CONTROL_FILE,
                            !.existed = exists(fs, CONTROL_FILE),
                            !.read = read_file(fs, CONTROL_FILE)]
    /\ UNCHANGED <<now, fs, FileOthers>>

(* OLEDSync.check_oled_health: the orchestrator reads the telemetry file *)
RendererReadsTelemetry ==
    /\ call' = [call EXCEPT !.op = "read", !.proc = "renderer", !.path = SHARED_STATE_FILE,
                            !.existed = exists(fs, SHARED_STATE_FILE),
                            !.read = read_file(fs, SHARED_STATE_FILE)]
    /\ UNCHANGED <<now, fs, procs, FileOthers>>

(* OLEDMonitor.write_shared_state: open the temp file *)
TelemetryOpen ==
    /\ procs["oled_monitor"].pc = "open"
    /\ procs["oled_monitor"].count < MaxTelemetryWrites
    /\ LET doc == [timestamp |-> now, cpu_percent |-> procs["oled_monitor"].count,
                   health |-> "ok"]
           o == open_w(fs, SHARED_STATE_TMP)
       IN /\ fs' = o.fs
          /\ procs' = [procs EXCEPT !["oled_monitor"].pc = "write",
                                    !["oled_monitor"].fd = o.fd,
                                    !["oled_monitor"].count = @ + 1,
                                    !["oled_monitor"].text = json_dump_telemetry(doc)]
          /\ call' = [call EXCEPT !.op = "open", !.proc = "oled_monitor",
                                  !.intended = @ \cup {json_dump_telemetry(doc)}]
    /\ now' = now + 1
    /\ UNCHANGED FileOthers

TelemetryWrite ==
    /\ procs["oled_monitor"].pc = "write"
    /\ fs' = write_close(fs, procs["oled_monitor"].fd, procs["oled_monitor"].text)
    /\ procs' = [procs EXCEPT !["oled_monitor"].pc = "replace"]
    /\ call' = [call EXCEPT !.op = "write", !.proc = "oled_monitor"]
    /\ UNCHANGED <<now, FileOthers>>

TelemetryReplace ==
    /\ procs["oled_monitor"].pc = "replace"
    /\ fs' = os_replace(fs, SHARED_STATE_TMP, SHARED_STATE_FILE)
    /\ procs' = [procs EXCEPT !["oled_monitor"].pc = "open"]
    /\ call' = [call EXCEPT !.op = "replace", !.proc = "oled_monitor"]
    /\ UNCHANGED <<now, FileOthers>>

FileNext ==
    \/ \E h \in Handlers : HandlerRequest(h)
    \/ \E p \in ControlWriters : UcsRead(p)
    \/ \E p \in ControlWriters : UcsOpen(p)
    \/ \E p \in ControlWriters : UcsWrite(p)
    \/ \E p \in ControlWriters : UcsReplace(p)
    \/ RendererPoll
    \/ RendererReadsTelemetry
    \/ TelemetryOpen
    \/ TelemetryWrite
    \/ TelemetryReplace

SpecFile == FileInit /\ [][FileNext]_vars

(* C9: under every interleaving of the writers with a reader, each read of *)
(* the telemetry or control document returns a complete document produced  *)
(* by exactly one write, never a partial or mixed one.                     *)
C9_ReadsWholeDocument ==
    (call.op = "read" /\ call.existed) => call.read \in call.intended

(* C10: once all update_control_state calls have finished, each field of   *)
(* the control document holds the value of the most recent write to that   *)
(* field.                                                                  *)
Quiescent == \A p \in ControlWriters : procs[p].pc \in {"idle", "poll"}

C10_NoLostUpdate ==
    Quiescent =>
        \A f \in Fields :
            call.latest[f] # None => read_control_file(fs)[f] = Val(call.latest[f])

----------------------------------------------------------------------------
(* OLEDSync (oled_sync.py).  The telemetry file is [exists, parses, doc]:  *)
(* whether the path exists, whether json.load accepts its text, and the    *)
(* document the text stands for.  A health status is the tuple            *)
(* (is_healthy, state_data) as a record, state None or Some(document).     *)

STALE_THRESHOLD == 50
oled_check_interval == 50
recovery_flash_duration == 20

Verdict(is_healthy, state) == [healthy |-> is_healthy, state |-> state]

NewOLEDSync ==
    [last_health_status |-> None, last_check_time |-> 0,
     oled_recovery_flash_until |-> 0]

is_stale_at_threshold(age) == age >= STALE_THRESHOLD

is_stale(age) == age > STALE_THRESHOLD

(* Whether the status is kept in the branches that report a failure *)
was_up(self) ==
    self.last_health_status = None \/ Val(self.last_health_status).healthy

(* check_oled_health at time t: the object afterwards, the tuple returned, *)
(* and whether the file was looked at.                                     *)
check_oled_health(self, file, t) ==
    IF t - self.last_check_time < oled_check_interval
    THEN [self |-> self,
          ret |-> IF self.last_health_status # None
                  THEN Val(self.last_health_status)
                  ELSE Verdict(TRUE, None),
          performed |-> FALSE]
    ELSE
      LET checked == [self EXCEPT !.last_check_time = t]
          down(state) ==
              IF was_up(checked)
              THEN [checked EXCEPT !.last_health_status = Some(Verdict(FALSE, state))]
              ELSE checked
          was_healthy ==
              IF checked.last_health_status # None
              THEN Val(checked.last_health_status).healthy
              ELSE TRUE
          flashed ==
              IF ~was_healthy
              THEN [checked EXCEPT !.oled_recovery_flash_until =
                                       t + recovery_flash_duration]
              ELSE checked
      IN IF ~file.exists
         THEN [self |-> down(None), ret |-> Verdict(FALSE, None), performed |-> TRUE]
         ELSE IF ~file.parses
         THEN [self |-> checked, ret |-> Verdict(FALSE, None), performed |-> TRUE]
         ELSE IF is_stale(t - file.doc.timestamp)
         THEN [self |-> down(Some(file.doc)),
               ret |-> Verdict(FALSE, Some(file.doc)), performed |-> TRUE]
         ELSE [self |-> [flashed EXCEPT !.last_health_status =
                                            Some(Verdict(TRUE, Some(file.doc)))],
               ret |-> Verdict(TRUE, Some(file.doc)), performed |-> TRUE]

is_showing_recovery_flash(self, t) == t < self.oled_recovery_flash_until

(* get_system_metrics: the object afterwards and the metrics or None *)
get_system_metrics(self, file, t) ==
    LET r == check_oled_health(self, file, t)
    IN [self |-> r.self,
        ret |-> IF ~r.ret.healthy \/ r.ret.state = None THEN None
                ELSE Some([cpu_percent |-> Val(r.ret.state).cpu_percent,
                           ram_percent |-> Val(r.ret.state).ram_percent,
                           temperature |-> Val(r.ret.state).temperature])]

----------------------------------------------------------------------------
(* SpecOled: one OLEDSync object, its callers, and what the OLED monitor   *)
(* and the environment do to the telemetry file.                           *)

OledBoot == Clock(12, 0, 0)
OledSteps == {10, 20}

TelemetryDoc(ts, cpu) ==
    [timestamp |-> ts, cpu_percent |-> cpu, ram_percent |-> 40, temperature |-> 50]

TelemetryMissing == [exists |-> FALSE, parses |-> FALSE, doc |-> TelemetryDoc(0, 0)]
TelemetryGarbage == [exists |-> TRUE, parses |-> FALSE, doc |-> TelemetryDoc(0, 0)]
TelemetryText(doc) == [exists |-> TRUE, parses |-> TRUE, doc |-> doc]

OledCall ==
    [op |-> "init", ret |-> Verdict(TRUE, None), performed |-> FALSE,
     flash |-> FALSE, prev |-> None, last_performed |-> None, found |-> "none",
     transition |-> None]

OledInit ==
    /\ now = OledBoot
    /\ oled_sync = NewOLEDSync
    /\ telemetry_file \in
           {TelemetryMissing, TelemetryGarbage,
            TelemetryText(TelemetryDoc(OledBoot, 10)),
            TelemetryText(TelemetryDoc(OledBoot - 100, 10))}
    /\ call = OledCall
    /\ config_file = [doc |-> DefaultConfig, mtime |-> 0]
    /\ state_file = DefaultState
    /\ scheduler = NewScheduler(state_file, config_file)
    /\ fade_controller = IdleFade
    /\ controller = IdleController
    /\ control_file = IdleControl
    /\ fs = IdleFs
    /\ procs = IdleProcs

OledOthers ==
    <<scheduler, state_file, config_file, fade_controller, controller,
      control_file, fs, procs>>

OledAdvance ==
    /\ \E d \in OledSteps :
          /\ now + d <= OledBoot + 20 * MaxOledAdvances
          /\ now' = now + d
    /\ call' = [call EXCEPT !.op = "advance"]
    /\ UNCHANGED <<oled_sync, telemetry_file, OledOthers>>

(* OLEDMonitor.write_shared_state: a document stamped with the write time *)
TelemetryWritten ==
    /\ telemetry_file' = TelemetryText(TelemetryDoc(now, 10))
    /\ telemetry_file' # telemetry_file
    /\ call' = [call EXCEPT !.op = "written"]
    /\ UNCHANGED <<now, oled_sync, OledOthers>>

(* The file is removed (/tmp is cleaned, the machine restarted) *)
TelemetryRemoved ==
    /\ telemetry_file # TelemetryMissing
    /\ telemetry_file' = TelemetryMissing
    /\ call' = [call EXCEPT !.op = "removed"]
    /\ UNCHANGED <<now, oled_sync, OledOthers>>

(* The file's text is no JSON document *)
TelemetryCorrupted ==
    /\ telemetry_file # TelemetryGarbage
    /\ telemetry_file' = TelemetryGarbage
    /\ call' = [call EXCEPT !.op = "corrupted"]
    /\ UNCHANGED <<now, oled_sync, OledOthers>>

Found(file, t) ==
    IF ~file.exists THEN "missing"
    ELSE IF ~file.parses THEN "unparseable"
    ELSE IF is_stale(t - file.doc.timestamp) THEN "stale" ELSE "healthy"

CheckOledHealthCall ==
    /\ LET r == check_oled_health(oled_sync, telemetry_file, now)
       IN /\ oled_sync' = r.self
          /\ call' = [call EXCEPT
                        !.op = "check", !.ret = r.ret, !.performed = r.performed,
                        !.prev = Some(r.ret.healthy),
                        !.last_performed =
                            IF r.performed THEN Some(r.ret.healthy) ELSE @,
                        !.found =
                            IF r.performed THEN Found(telemetry_file, now) ELSE @,
                        !.transition =
                            IF call.prev = Some(FALSE) /\ r.ret.healthy
                            THEN Some(now) ELSE @]
    /\ UNCHANGED <<now, telemetry_file, OledOthers>>

IsShowingRecoveryFlashCall ==
    /\ call' = [call EXCEPT !.op = "flash",
                            !.flash = is_showing_recovery_flash(oled_sync, now)]
    /\ UNCHANGED <<now, oled_sync, telemetry_file, OledOthers>>

OledNext ==
    \/ OledAdvance
    \/ TelemetryWritten
    \/ TelemetryRemoved
    \/ TelemetryCorrupted
    \/ CheckOledHealthCall
    \/ IsShowingRecoveryFlashCall

SpecOled == OledInit /\ [][OledNext]_vars

----------------------------------------------------------------------------
(* Claims about OLEDSync, checked under SpecOled.  A call leaves the clock *)
(* and the file alone, so after a check now and telemetry_file are the     *)
(* time and the file of the call.                                          *)

TelemetryFresh ==
    /\ telemetry_file.exists
    /\ telemetry_file.parses
    /\ now - telemetry_file.doc.timestamp <= 50

(* C11, as stated: at every call of check_oled_health the verdict is       *)
(* healthy exactly when the telemetry document exists, parses and is at    *)
(* most 5 s old at the time of the call.                                   *)
C11_VerdictAtEveryCall ==
    call.op = "check" => (call.ret.healthy <=> TelemetryFresh)

(* C11, amended: at every call of check_oled_health that performs a check  *)
(* (one made at least 5 s after the last performed check) the verdict is   *)
(* healthy exactly when the telemetry document exists, parses and is at    *)
(* most 5 s old at the time of the call.                                   *)
C11_VerdictAtPerformedCheck ==
    (call.op = "check" /\ call.performed) => (call.ret.healthy <=> TelemetryFresh)

C11_Witness ==
    /\ call.op = "check"
    /\ call.performed
    /\ telemetry_file.exists
    /\ telemetry_file.parses
    /\ now - telemetry_file.doc.timestamp = 50
    /\ call.ret.healthy
    /\ call.last_performed = Some(TRUE)
    /\ oled_sync.last_check_time = now

(* C12: a call made less than the check interval after the last performed  *)
(* check returns the verdict that check returned, whatever it found; the   *)
(* default healthy verdict is returned only when no check has ever run.    *)
C12_CachedVerdict ==
    (call.op = "check" /\ ~call.performed) =>
        /\ call.last_performed # None => call.ret.healthy = Val(call.last_performed)
        /\ call.ret = Verdict(TRUE, None) => call.last_performed = None

(* C13: the recovery window ends 2 s after the last time the verdict       *)
(* returned by check_oled_health went from unhealthy to healthy between    *)
(* consecutive calls, it is armed by no other event, and                   *)
(* is_showing_recovery_flash is true before its end and false from then on.*)
RecoveryWindowEnd ==
    IF call.transition = None THEN 0 ELSE Val(call.transition) + 20

C13_RecoveryWindow ==
    /\ oled_sync.oled_recovery_flash_until = RecoveryWindowEnd
    /\ call.op = "flash" => (call.flash <=> now < RecoveryWindowEnd)

----------------------------------------------------------------------------
(* LightBarController with its telemetry: metrics, chaos value, the frame  *)
(* sent to the hardware.  A chaos value is in thousandths (1000..5000).    *)
(* A frame is what the strip is told to show: an effect's frame drawn with *)
(* a chaos value, the solid green recovery cue, the red alert pulse, or    *)
(* nothing.                                                                *)

metrics_interval == 5

EffectFrame(name, randomness) ==
    [kind |-> "effect", effect |-> name, randomness |-> randomness]
RecoveryCue == [kind |-> "recovery", effect |-> "", randomness |-> 0]
AlertPulse == [kind |-> "alert", effect |-> "", randomness |-> 0]
NoFrame == [kind |-> "none", effect |-> "", randomness |-> 0]

(* collect_system_metrics at time t; host is what psutil and the thermal   *)
(* sensor report.                                                          *)
collect_system_metrics(self, oled, telemetry, host, t) ==
    LET m == get_system_metrics(oled, telemetry, t)
    IN [self |-> [self EXCEPT !.system_metrics =
                                  IF m.ret # None THEN Val(m.ret) ELSE host],
        oled |-> m.self]

(* calculate_randomness: 1.0 + ((cpu*0.6 + ram*0.4)/100)*3.0, plus up to   *)
(* 1.0 above 70 degrees, capped at 5.0                                     *)
calculate_randomness(self) ==
    LET cpu == self.system_metrics.cpu_percent
        ram == self.system_metrics.ram_percent
        temp == self.system_metrics.temperature
        base_randomness == 1000 + 3 * (cpu * 6 + ram * 4)
        temp_bonus == IF temp > 70 THEN Min(1000, (temp - 70) * 50) ELSE 0
    IN Min(5000, base_randomness + temp_bonus)

(* calculate_randomness_override: None, or 1.0 + 4.0 * elapsed/duration *)
calculate_randomness_override(self, t) ==
    IF ~self.demo_mode_active THEN None
    ELSE LET elapsed == t - self.demo_mode_start_time
         IN Some(Min(5000, 1000 + (elapsed * 4000) \div demo_mode_duration))

(* update_effect: the frame the current effect draws, if it draws one *)
update_effect_frame(self) ==
    IF update_effect(self)
    THEN EffectFrame(self.current_effect_name, calculate_randomness(self))
    ELSE NoFrame

(* handle_oled_health: the controller and the OLEDSync object afterwards   *)
(* and the frame it sends (NoFrame when it sends none).                    *)
handle_oled_health(self, oled, telemetry, t) ==
    LET r == check_oled_health(oled, telemetry, t)
    IN IF is_showing_recovery_flash(r.self, t)
       THEN [self |-> [self EXCEPT !.oled_error_mode_active = FALSE],
             oled |-> r.self, frame |-> RecoveryCue]
       ELSE IF ~r.ret.healthy
       THEN [self |-> [self EXCEPT !.oled_error_mode_active = TRUE],
             oled |-> r.self, frame |-> AlertPulse]
       ELSE [self |-> [self EXCEPT !.oled_error_mode_active = FALSE],
             oled |-> r.self, frame |-> NoFrame]

(* CubeNano, the hardware link.  failures is the number of bus writes that *)
(* fail in a row from the call on.  _write_register tries retry_count      *)
(* times and raises RuntimeError when the last attempt fails too.          *)
retry_count == 3
error_log_interval == 600

write_register(failures) ==
    [raised |-> failures >= retry_count,
     attempts |-> Min(failures + 1, retry_count)]

(* update_effect with the hardware link: the controller afterwards, the    *)
(* frame shown, whether the effect's update() raised (dropped) and whether *)
(* an exception left update_effect (raised).  A frame is shown when the    *)
(* effect's first register write succeeds within its retries: the bus      *)
(* writes that follow in the same frame succeed.                           *)
update_effect_unhandled(self, failures, t) ==
    IF ~update_effect(self)
    THEN [self |-> self, frame |-> NoFrame, attempts |-> 0,
          dropped |-> FALSE, raised |-> FALSE]
    ELSE [self |-> self,
          frame |-> IF write_register(failures).raised THEN NoFrame
                    ELSE update_effect_frame(self),
          attempts |-> write_register(failures).attempts,
          dropped |-> write_register(failures).raised,
          raised |-> write_register(failures).raised]

update_effect_on_bus(self, failures, t) ==
    IF ~update_effect(self)
    THEN [self |-> self, frame |-> NoFrame, attempts |-> 0,
          dropped |-> FALSE, raised |-> FALSE]
    ELSE IF write_register(failures).raised
    THEN [self |-> IF t - self.last_error_log > error_log_interval
                   THEN [self EXCEPT !.error_count = 0, !.last_error_log = t]
                   ELSE [self EXCEPT !.error_count = @ + 1],
          frame |-> NoFrame,
          attempts |-> write_register(failures).attempts,
          dropped |-> TRUE, raised |-> FALSE]
    ELSE [self |-> self, frame |-> update_effect_frame(self),
          attempts |-> write_register(failures).attempts,
          dropped |-> FALSE, raised |-> FALSE]

(* shutdown(): the controller afterwards and what was done, in order.      *)
(* turn_off() and close() share one try block: a turn_off() that raises    *)
(* skips close().                                                          *)
shutdown(self, failures, t) ==
    IF write_register(failures).raised
    THEN [self |-> self, log |-> <<"turn_off raised", "stats">>]
    ELSE [self |-> [self EXCEPT !.raw_bot.bus = "closed"],
          log |-> <<"turn_off", "close", "stats">>]

(* ScheduleState(value): the enum's constructor raises ValueError for a    *)
(* string that is no member's value.  Scheduler.update() raises when it    *)
(* converts such a persisted state: not in the calls it skips, nor on the  *)
(* override-expiry path, which converts nothing.                           *)
ScheduleStateValues == {ON, OFF, OVERRIDE_ON, OVERRIDE_OFF, TRANSITIONING}

(* check_control_commands while the first `failures` attempts of a         *)
(* register write fail: when bot.turn_off() raises, the handler at the end *)
(* of the method catches it, after brightness_multiplier was set to 0 and  *)
(* before the demo flag is looked at.  cleared: turn_off() went through.   *)
check_control_commands_on_bus(self, fade, file, failures, t) ==
    LET r == check_control_commands(self, fade, file, t)
        raised == r.turned_off /\ write_register(failures).raised
    IN IF raised
       THEN [self |-> [self EXCEPT !.brightness_multiplier = 0], file |-> file,
             turned_off |-> TRUE, enabled |-> FALSE,
             cleared |-> FALSE, raised |-> TRUE]
       ELSE [self |-> r.self, file |-> r.file,
             turned_off |-> r.turned_off, enabled |-> r.enabled,
             cleared |-> r.turned_off, raised |-> FALSE]

update_raises(self, cfg, t) ==
    /\ ~(t - self.last_check < check_interval)
    /\ ~(self.state.override_until # None /\ t >= Val(self.state.override_until))
    /\ self.state.schedule_state \notin ScheduleStateValues

(* One iteration of run()'s loop at loop_start = t, all of it: scheduler   *)
(* tick, fade, control poll, metrics, demo update, effect update, frame    *)
(* count.  raised: an exception left the loop (run() has no handler, its   *)
(* finally clause shuts down).  read and after_poll: the document the poll *)
(* read and the controller as check_control_commands left it.              *)
run_iteration_on_bus(self, sched, fade, oled, cfg, file, telemetry, host, failures, t) ==
    LET tick == update(sched, cfg, t)
        fade1 == IF tick.ret = "fade_in"
                 THEN start_fade(fade, 0, 1000, fade_in_duration, t)
                 ELSE IF tick.ret = "fade_out"
                 THEN start_fade(fade, 1000, 0, fade_out_duration, t)
                 ELSE fade
        faded == fade_update(fade1, t)
        c1 == IF faded.ret # None
              THEN [self EXCEPT !.brightness_multiplier = Val(faded.ret)]
              ELSE self
        poll == t - self.last_control_check > control_check_interval
        checked == check_control_commands_on_bus(c1, faded.self, file, failures, t)
        c2 == IF poll THEN [checked.self EXCEPT !.last_control_check = t] ELSE c1
        collect == t - c2.last_metrics_update > metrics_interval
        collected == collect_system_metrics(c2, oled, telemetry, host, t)
        c3 == IF collect
              THEN [collected.self EXCEPT !.last_metrics_update = t]
              ELSE c2
        c4 == update_demo_mode(c3, t)
        rendered == update_effect_on_bus(c4, failures, t)
    IN IF update_raises(sched, cfg, t)
       THEN [raised |-> TRUE,
             self |-> self,
             scheduler |-> reload_config_if_changed([sched EXCEPT !.last_check = t], cfg),
             saved |-> FALSE, fade |-> fade, oled |-> oled, file |-> file,
             action |-> "none", polled |-> FALSE, read |-> DefaultControl,
             before_poll |-> self,
             after_poll |-> self, turned_off |-> FALSE,
             cleared |-> FALSE, clear_raised |-> FALSE, collected |-> FALSE,
             before_render |-> self, attempts |-> 0, dropped |-> FALSE,
             frame |-> NoFrame]
       ELSE [raised |-> rendered.raised,
             self |-> IF rendered.raised THEN rendered.self
                      ELSE [rendered.self EXCEPT !.frame_count = @ + 1],
             scheduler |-> tick.self,
             saved |-> tick.saved,
             fade |-> faded.self,
             oled |-> IF collect THEN collected.oled ELSE oled,
             file |-> IF poll THEN checked.file ELSE file,
             action |-> tick.ret,
             polled |-> poll,
             read |-> read_control_state(file),
             before_poll |-> c1,
             after_poll |-> c2,
             turned_off |-> poll /\ checked.turned_off,
             cleared |-> poll /\ checked.cleared,
             clear_raised |-> poll /\ checked.raised,
             collected |-> collect,
             before_render |-> c4,
             attempts |-> rendered.attempts,
             dropped |-> rendered.dropped,
             frame |-> rendered.frame]

(* The loop body while the hardware link works *)
run_iteration(self, sched, fade, oled, cfg, file, telemetry, host, t) ==
    run_iteration_on_bus(self, sched, fade, oled, cfg, file, telemetry, host, 0, t)

----------------------------------------------------------------------------
(* The orchestrator process with its telemetry.  procs.orchestrator is its *)
(* position: "start" before run(), "loop" in the loop, "shutdown" after.   *)
(* call records the last iteration: its loop_start t, the frame sent, the  *)
(* document the poll read (prev_read: the one the poll before it read),    *)
(* the brightness multiplier just before the poll, whether that poll is    *)
(* the first to read enabled=false since a poll read enabled=true, what    *)
(* the poll left, whether a clear is owed (clear_pending: the last clear a *)
(* poll issued raised and no poll since has cleared the strip or read      *)
(* enabled=true), the verdict and the recovery window a call of            *)
(* handle_oled_health at t would have found, and the demo in progress      *)
(* (its start t0 and the effect active just before it started).            *)

RunCall ==
    [op |-> "init", t |-> 0, frame |-> NoFrame, raised |-> FALSE,
     polled |-> FALSE, read |-> DefaultControl, turned_off |-> FALSE,
     pre_active |-> FALSE, after_poll_active |-> FALSE, started |-> FALSE,
     demo |-> None, healthy |-> TRUE, flash |-> FALSE,
     disabled_seen |-> FALSE, first_disabled |-> FALSE,
     pre_effect |-> "", after_poll_effect |-> "", after_poll_brightness |-> 0,
     writes |-> 0, requests |-> 0, starts |-> 0,
     attempts |-> 0, dropped |-> FALSE, prev_dropped |-> FALSE,
     render_effect |-> "", render_state |-> None, render_brightness |-> 0,
     pre_state |-> None, after_poll_state |-> None,
     pre_brightness |-> 0, prev_read |-> None,
     clear_pending |-> FALSE, was_pending |-> FALSE,
     shutdown |-> <<>>]

RunOthers == <<fs>>

(* run(): up to the loop *)
RunBegin ==
    /\ procs.orchestrator = "start"
    /\ controller' = set_effect([controller EXCEPT !.running = TRUE],
                                controller.current_effect_name, now)
    /\ procs' = [procs EXCEPT !.orchestrator = "loop"]
    /\ call' = [call EXCEPT !.op = "run"]
    /\ UNCHANGED <<now, scheduler, state_file, config_file, fade_controller,
                   control_file, oled_sync, telemetry_file, RunOthers>>

(* One loop iteration, then the sleep up to the next one *)
RunIterationOnBus(Steps, Hosts, frames, Failures) ==
    /\ procs.orchestrator = "loop"
    /\ controller.running
    /\ controller.frame_count < frames
    /\ \E d \in Steps, host \in Hosts, failures \in Failures :
          \E r \in {run_iteration_on_bus(controller, scheduler, fade_controller,
                                         oled_sync, config_file, control_file,
                                         telemetry_file, host, failures, now)} :
          LET started == ~controller.demo_mode_active /\ r.after_poll.demo_mode_active
              before == IF r.read.enabled /\ r.read.effect \in available_effects
                        THEN r.read.effect
                        ELSE controller.current_effect_name
          IN /\ controller' = r.self
             /\ scheduler' = r.scheduler
             /\ state_file' = IF r.saved THEN r.scheduler.state ELSE state_file
             /\ fade_controller' = r.fade
             /\ oled_sync' = r.oled
             /\ control_file' = r.file
             /\ procs' = IF r.raised
                         THEN [procs EXCEPT !.orchestrator = "shutdown"]
                         ELSE procs
             /\ call' = [call EXCEPT
                           !.op = "loop", !.t = now, !.frame = r.frame,
                           !.raised = r.raised, !.polled = r.polled,
                           !.read = r.read, !.turned_off = r.turned_off,
                           !.pre_active = controller.demo_mode_active,
                           !.after_poll_active = r.after_poll.demo_mode_active,
                           !.started = started,
                           !.disabled_seen = IF r.polled THEN ~r.read.enabled ELSE @,
                           !.first_disabled =
                               r.polled /\ ~r.read.enabled /\ ~call.disabled_seen,
                           !.pre_effect = controller.current_effect_name,
                           !.after_poll_effect = r.after_poll.current_effect_name,
                           !.pre_state = controller.current_effect,
                           !.after_poll_state = r.after_poll.current_effect,
                           !.after_poll_brightness = r.after_poll.brightness_multiplier,
                           !.pre_brightness = r.before_poll.brightness_multiplier,
                           !.prev_read = IF call.polled THEN Some(call.read) ELSE @,
                           !.was_pending = call.clear_pending,
                           !.clear_pending =
                               IF ~r.polled THEN @
                               ELSE IF r.read.enabled \/ r.cleared THEN FALSE
                               ELSE IF r.clear_raised THEN TRUE
                               ELSE @,
                           !.starts = IF started THEN @ + 1 ELSE @,
                           !.attempts = r.attempts,
                           !.dropped = r.dropped,
                           !.prev_dropped = call.dropped,
                           !.render_effect = r.before_render.current_effect_name,
                           !.render_state = r.before_render.current_effect,
                           !.render_brightness = r.before_render.brightness_multiplier,
                           !.demo = IF started
                                    THEN Some([t0 |-> now, before |-> before])
                                    ELSE IF controller.demo_mode_active THEN @
                                    ELSE None,
                           !.healthy =
                               check_oled_health(r.oled, telemetry_file, now).ret.healthy,
                           !.flash = is_showing_recovery_flash(
                               check_oled_health(r.oled, telemetry_file, now).self, now)]
             /\ now' = now + d
    /\ UNCHANGED <<config_file, telemetry_file, RunOthers>>

(* One loop iteration while the hardware link works *)
RunIteration(Steps, Hosts, frames) == RunIterationOnBus(Steps, Hosts, frames, {0})

(* _signal_handler: SIGINT or SIGTERM ends the loop, shutdown follows *)
StopSignal ==
    /\ procs.orchestrator = "loop"
    /\ controller' = [controller EXCEPT !.running = FALSE]
    /\ procs' = [procs EXCEPT !.orchestrator = "shutdown"]
    /\ call' = [call EXCEPT !.op = "signal"]
    /\ UNCHANGED <<now, scheduler, state_file, config_file, fade_controller,
                   control_file, oled_sync, telemetry_file, RunOthers>>

(* run()'s finally clause: shutdown(), then the process ends *)
Shutdown(Failures) ==
    /\ procs.orchestrator = "shutdown"
    /\ \E failures \in Failures :
          \E r \in {shutdown(controller, failures, now)} :
             /\ controller' = r.self
             /\ call' = [call EXCEPT !.op = "shutdown", !.shutdown = r.log]
    /\ procs' = [procs EXCEPT !.orchestrator = "done"]
    /\ UNCHANGED <<now, scheduler, state_file, config_file, fade_controller,
                   control_file, oled_sync, telemetry_file, RunOthers>>

(* A control-plane request: update_control_state with one field *)
ControlPlaneWrite(field, value, writes) ==
    /\ call.writes < writes
    /\ control_file' = update_control_state(control_file, field, value, now)
    /\ call' = [call EXCEPT !.op = "api", !.writes = @ + 1,
                            !.requests = IF field = "demo_mode" THEN @ + 1 ELSE @]
    /\ UNCHANGED <<now, scheduler, state_file, config_file, fade_controller,
                   controller, procs, oled_sync, telemetry_file, RunOthers>>

----------------------------------------------------------------------------
(* SpecHealth: the loop with the schedule disabled (lights on) while the   *)
(* OLED monitor's telemetry comes and goes.                                *)

HealthBoot == Clock(12, 0, 0)
HealthSteps == {10, 50}
HostMetrics == {[cpu_percent |-> 90, ram_percent |-> 80, temperature |-> 75]}

HealthInit ==
    /\ now = HealthBoot
    /\ config_file = [doc |-> [DefaultConfig EXCEPT !.enabled = FALSE],
                      mtime |-> HealthBoot - 1]
    /\ state_file = [DefaultState EXCEPT !.schedule_state = ON]
    /\ scheduler = NewScheduler(state_file, config_file)
    /\ fade_controller = NewFadeController
    /\ controller = NewController(scheduler, now)
    /\ control_file = None
    /\ oled_sync = NewOLEDSync
    /\ telemetry_file \in {TelemetryMissing, TelemetryText(TelemetryDoc(HealthBoot, 10))}
    /\ procs = [orchestrator |-> "start"]
    /\ fs = IdleFs
    /\ call = RunCall

HealthIteration == RunIteration(HealthSteps, HostMetrics, MaxHealthFrames)

HealthNext ==
    \/ RunBegin
    \/ HealthIteration
    \/ TelemetryWritten
    \/ TelemetryRemoved
    \/ TelemetryCorrupted

SpecHealth == HealthInit /\ [][HealthNext]_vars

(* C14: in every loop iteration that falls inside an armed recovery window *)
(* (with the lights not off) the frame sent to the hardware is the         *)
(* recovery cue, not the active effect's frame.                            *)
C14_RecoveryCueShown ==
    (call.op = "loop" /\ call.flash /\ controller.brightness_multiplier > 0)
        => call.frame = RecoveryCue

(* C15: in every loop iteration in which the telemetry verdict is          *)
(* unhealthy and the lights are not off, the frame sent to the hardware is *)
(* the alert pulse, not the active effect's frame.                         *)
C15_AlertPulseShown ==
    (call.op = "loop" /\ ~call.healthy /\ ~call.flash
       /\ controller.brightness_multiplier > 0)
        => call.frame = AlertPulse

----------------------------------------------------------------------------
(* SpecDemo: the loop inside the schedule window with the lights on, and a *)
(* control plane that requests demos and changes the effect.               *)

DemoBoot == Clock(12, 0, 0)
DemoSteps == {5, 60}
DemoModes == {"load_rainbow"}

DemoInit ==
    /\ now = DemoBoot
    /\ config_file = [doc |-> DefaultConfig, mtime |-> DemoBoot - 1]
    /\ state_file = [DefaultState EXCEPT !.schedule_state = ON]
    /\ scheduler = NewScheduler(state_file, config_file)
    /\ fade_controller = NewFadeController
    /\ controller = NewController(scheduler, now)
    /\ control_file = None
    /\ oled_sync = NewOLEDSync
    /\ telemetry_file = TelemetryText(TelemetryDoc(DemoBoot, 10))
    /\ procs = [orchestrator |-> "start"]
    /\ fs = IdleFs
    /\ call = RunCall

DemoIteration == RunIteration(DemoSteps, HostMetrics, MaxDemoFrames)
DemoRequest == ControlPlaneWrite("demo_mode", TRUE, MaxDemoWrites)
DemoSetMode == \E mode \in DemoModes : ControlPlaneWrite("effect", mode, MaxDemoWrites)

DemoNext ==
    \/ RunBegin
    \/ DemoIteration
    \/ DemoRequest
    \/ DemoSetMode

SpecDemo == DemoInit /\ [][DemoNext]_vars

----------------------------------------------------------------------------
(* Claims about the demo sequence, checked under SpecDemo *)

DemoStart == Val(call.demo).t0
DemoElapsed == call.t - DemoStart
DemoEntry == Effects[(DemoElapsed \div 60) + 1]

(* C16: for a demo started at t0, in a loop iteration at t < t0 + 30 s the *)
(* demo is on and the current effect, and the effect of any frame sent, is *)
(* entry floor((t - t0) / 6 s) of the fixed list; in the first iteration   *)
(* with t >= t0 + 30 s the demo ends and the current effect is the one     *)
(* that was active immediately before the demo started.                    *)
C16_DemoSequence ==
    (call.op = "loop" /\ call.demo # None) =>
        IF DemoElapsed < 300
        THEN /\ controller.demo_mode_active
             /\ controller.current_effect_name = DemoEntry
             /\ call.frame.kind = "effect" => call.frame.effect = DemoEntry
        ELSE /\ ~controller.demo_mode_active
             /\ controller.current_effect_name = Val(call.demo).before
             /\ call.frame.kind = "effect" =>
                    call.frame.effect = Val(call.demo).before

C16_Witness ==
    /\ call.op = "loop"
    /\ call.demo # None
    /\ DemoElapsed >= 300
    /\ ~controller.demo_mode_active
    /\ Val(call.demo).before = "load_rainbow"
    /\ call.frame = EffectFrame("load_rainbow", calculate_randomness(controller))

(* C17: in every frame rendered while the demo is active the chaos value   *)
(* given to the effect is 1.0 + 4.0 * (elapsed / 30 s), capped at 5.0,     *)
(* whatever the live telemetry (cpu, ram, temperature) is.                 *)
C17_DemoChaosRamp ==
    (call.op = "loop" /\ call.demo # None /\ controller.demo_mode_active
       /\ call.frame.kind = "effect")
        => call.frame.randomness = Min(5000, 1000 + (DemoElapsed * 4000) \div 300)

----------------------------------------------------------------------------
(* SpecPoll: the loop around a schedule boundary and a control plane that  *)
(* toggles the lights and sets brightness and effect.                      *)

PollSteps == {update_interval, 10}
PollBrightness == {50}
PollModes == {"load_rainbow"}

PollInit ==
    /\ now = Boot
    /\ config_file \in { [doc |-> d, mtime |-> Boot - 1] : d \in ConfigDocs }
    /\ state_file \in {DefaultState, [DefaultState EXCEPT !.schedule_state = ON]}
    /\ scheduler = NewScheduler(state_file, config_file)
    /\ fade_controller = NewFadeController
    /\ controller = NewController(scheduler, now)
    /\ control_file = None
    /\ oled_sync = NewOLEDSync
    /\ telemetry_file = TelemetryText(TelemetryDoc(Boot, 10))
    /\ procs = [orchestrator |-> "start"]
    /\ fs = IdleFs
    /\ call = RunCall

PollIteration == RunIteration(PollSteps, HostMetrics, MaxPollFrames)
PollToggle == \E enabled \in BOOLEAN : ControlPlaneWrite("enabled", enabled, MaxPollWrites)
PollSetBrightness ==
    \E b \in PollBrightness : ControlPlaneWrite("brightness", b, MaxPollWrites)
PollSetMode == \E mode \in PollModes : ControlPlaneWrite("effect", mode, MaxPollWrites)

PollNext ==
    \/ RunBegin
    \/ PollIteration
    \/ PollToggle
    \/ PollSetBrightness
    \/ PollSetMode

SpecPoll == PollInit /\ [][PollNext]_vars

(* C19: the control poll that first observes enabled=false issues a        *)
(* hardware clear, whatever the effect, the brightness (0 included) and    *)
(* the fade state before it, and applies neither the effect nor the        *)
(* brightness field of that document: it leaves the brightness multiplier  *)
(* at 0 and the effect as it was.                                          *)
C19_DisableClears ==
    (call.op = "loop" /\ call.first_disabled) =>
        /\ call.turned_off
        /\ call.after_poll_brightness = 0
        /\ call.after_poll_effect = call.pre_effect

----------------------------------------------------------------------------
(* SpecRobust: the loop over documents with unexpected content: a state    *)
(* file whose schedule_state is no ScheduleState value, a control document *)
(* naming an unknown effect, a telemetry file that is missing or no JSON.  *)

RobustSteps == {10, 600}
UnknownEffects == {"strobe"}
RobustStates ==
    {DefaultState, [DefaultState EXCEPT !.schedule_state = "dimmed"]}

RobustInit ==
    /\ now = Boot
    /\ config_file = [doc |-> DefaultConfig, mtime |-> Boot - 1]
    /\ state_file \in RobustStates
    /\ scheduler = NewScheduler(state_file, config_file)
    /\ fade_controller = NewFadeController
    /\ controller = NewController(scheduler, now)
    /\ control_file = None
    /\ oled_sync = NewOLEDSync
    /\ telemetry_file \in {TelemetryMissing, TelemetryGarbage}
    /\ procs = [orchestrator |-> "start"]
    /\ fs = IdleFs
    /\ call = RunCall

RobustIteration == RunIteration(RobustSteps, HostMetrics, MaxRobustFrames)
RobustSetMode ==
    \E mode \in UnknownEffects : ControlPlaneWrite("effect", mode, MaxRobustWrites)

RobustNext ==
    \/ RunBegin
    \/ RobustIteration
    \/ StopSignal
    \/ RobustSetMode
    \/ TelemetryWritten
    \/ TelemetryRemoved
    \/ TelemetryCorrupted

SpecRobust == RobustInit /\ [][RobustNext]_vars

(* C20: whatever the telemetry, control, schedule-config and               *)
(* schedule-state documents contain, the orchestrator's loop is left only  *)
(* after an external stop signal.                                          *)
C20_LoopEndsOnlyOnSignal ==
    procs.orchestrator = "shutdown" => ~controller.running

----------------------------------------------------------------------------
(* C33: a poll that reads the same control document as the poll before it  *)
(* neither switches nor recreates the current effect and leaves the        *)
(* brightness multiplier as it found it, a running demo included.          *)
SameDocumentPolled ==
    call.op = "loop" /\ call.polled /\ call.prev_read = Some(call.read)

C33_PollIdempotent ==
    SameDocumentPolled =>
        /\ call.after_poll_effect = call.pre_effect
        /\ call.after_poll_state = call.pre_state
        /\ call.after_poll_brightness = call.pre_brightness

----------------------------------------------------------------------------
(* SpecFault: the loop on a hardware link whose writes fail transiently,   *)
(* with the lights on, the control plane changing effect and brightness,   *)
(* and the stop signal followed by shutdown().                             *)

FaultBoot == Clock(12, 0, 0)
FaultSteps == {update_interval, 700}
FaultBrightness == {50}
FaultModes == {"load_rainbow"}
BusFailures == 0..MaxBusFailures

FaultInit ==
    /\ now = FaultBoot
    /\ config_file = [doc |-> [DefaultConfig EXCEPT !.enabled = FALSE],
                      mtime |-> FaultBoot - 1]
    /\ state_file = [DefaultState EXCEPT !.schedule_state = ON]
    /\ scheduler = NewScheduler(state_file, config_file)
    /\ fade_controller = NewFadeController
    /\ controller = NewController(scheduler, now)
    /\ control_file = None
    /\ oled_sync = NewOLEDSync
    /\ telemetry_file = TelemetryMissing
    /\ procs = [orchestrator |-> "start"]
    /\ fs = IdleFs
    /\ call = RunCall

FaultIteration == RunIterationOnBus(FaultSteps, HostMetrics, MaxFaultFrames, BusFailures)
FaultSetBrightness ==
    \E b \in FaultBrightness : ControlPlaneWrite("brightness", b, MaxFaultWrites)
FaultSetMode == \E mode \in FaultModes : ControlPlaneWrite("effect", mode, MaxFaultWrites)
FaultShutdown == Shutdown(BusFailures)

FaultNext ==
    \/ RunBegin
    \/ FaultIteration
    \/ FaultSetBrightness
    \/ FaultSetMode
    \/ StopSignal
    \/ FaultShutdown

SpecFault == FaultInit /\ [][FaultNext]_vars

C22_ShutdownReleasesLink ==
    /\ (procs.orchestrator = "done") =>
          /\ controller.raw_bot.bus = "closed"
          /\ call.shutdown \in { <<"turn_off", "close", "stats">>,
                                 <<"turn_off raised", "close", "stats">> }
    /\ (call.op = "signal") => procs.orchestrator = "shutdown"

----------------------------------------------------------------------------
(* The Scheduler's state document on disk.  The file is whether it exists  *)
(* and its data: the JSON text as the sequence of its members, each a key  *)
(* and a JSON value (null, a number or a string, as json.dump prints the   *)
(* Python value).  A text that json.load rejects is any other sequence.    *)

JsonNull == [type |-> "null", str |-> "", num |-> 0]
JsonNumber(n) == [type |-> "number", str |-> "", num |-> n]
JsonString(v) == [type |-> "string", str |-> v, num |-> 0]
Member(k, v) == [key |-> k, value |-> v]

StateKeys == <<"schedule_state", "override_until", "last_transition", "current_brightness">>

(* json.dump(self.state): None prints as null, a float as a number *)
json_dump_state(state) ==
    << Member("schedule_state", JsonString(state.schedule_state)),
       Member("override_until",
              IF state.override_until = None THEN JsonNull
              ELSE JsonNumber(Val(state.override_until))),
       Member("last_transition", JsonNull),
       Member("current_brightness", JsonNumber(state.current_brightness)) >>

(* json.load: raises on a text that is no document *)
json_load_raises(data) ==
    \/ Len(data) # Len(StateKeys)
    \/ \E i \in 1..Len(data) : data[i].key # StateKeys[i]

json_load_state(data) ==
    [schedule_state |-> data[1].value.str,
     override_until |-> IF data[2].value.type = "null" THEN None
                        ELSE Some(data[2].value.num),
     last_transition |-> None,
     current_brightness |-> data[4].value.num]

(* load_state: the default state when the file is missing or json.load    *)
(* raises                                                                  *)
load_state(file) ==
    IF file.exists /\ ~json_load_raises(file.data)
    THEN json_load_state(file.data)
    ELSE DefaultState

(* save_state: temp file written, then renamed over the state file *)
save_state_keeps_file(self, file) == file

save_state(self, file) == [exists |-> TRUE, data |-> json_dump_state(self.state)]

----------------------------------------------------------------------------
(* SpecPersist: one Scheduler with its state file: calls of update(),      *)
(* set_override() and clear_override(), and the construction of a new      *)
(* Scheduler from the file (a restart).                                    *)

PersistBoot == Clock(6, 58, 30)
PersistSteps == {300, 600}
PersistDurations == {60, 120}
StateFileMissing == [exists |-> FALSE, data |-> <<>>]
StateFileTruncated ==
    [exists |-> TRUE, data |-> SubSeq(json_dump_state(DefaultState), 1, 2)]
PersistedDocs ==
    { DefaultState,
      [DefaultState EXCEPT !.schedule_state = ON, !.current_brightness = 1000],
      [DefaultState EXCEPT !.schedule_state = OVERRIDE_ON,
                           !.override_until = Some(PersistBoot + 600)] }

PersistInit ==
    /\ now = PersistBoot
    /\ config_file \in { [doc |-> d, mtime |-> PersistBoot - 1] : d \in ConfigDocs }
    /\ state_file \in {StateFileMissing, StateFileTruncated}
                       \cup { [exists |-> TRUE, data |-> json_dump_state(d)] :
                                d \in PersistedDocs }
    /\ scheduler = NewScheduler(load_state(state_file), config_file)
    /\ call = IdleCall
    /\ fade_controller = IdleFade
    /\ controller = IdleController
    /\ control_file = IdleControl
    /\ fs = IdleFs
    /\ procs = IdleProcs
    /\ oled_sync = IdleOled
    /\ telemetry_file = IdleTelemetry

PersistAdvance ==
    /\ \E d \in PersistSteps :
          /\ now + d <= PersistBoot + MaxPersistElapsed
          /\ now' = now + d
    /\ call' = [call EXCEPT !.op = "advance", !.pre = None, !.ret = "none"]
    /\ UNCHANGED <<scheduler, state_file, config_file, SchedOthers>>

PersistUpdate ==
    /\ \E r \in {update(scheduler, config_file, now)} :
          /\ scheduler' = r.self
          /\ state_file' = IF r.saved THEN save_state(r.self, state_file)
                           ELSE state_file
          /\ call' = [op |-> "update", pre |-> Some(scheduler), ret |-> r.ret,
                      ov |-> None]
    /\ UNCHANGED <<now, config_file, SchedOthers>>

PersistSetOverride ==
    /\ \E turn_on \in BOOLEAN, d \in PersistDurations :
          /\ scheduler' = set_override(scheduler, turn_on, d, now)
          /\ state_file' = save_state(scheduler', state_file)
          /\ call' = [op |-> "set_override", pre |-> Some(scheduler),
                      ret |-> "none", ov |-> Some(turn_on)]
    /\ UNCHANGED <<now, config_file, SchedOthers>>

PersistClearOverride ==
    /\ scheduler' = clear_override(scheduler, now)
    /\ state_file' = save_state(scheduler', state_file)
    /\ call' = [op |-> "clear_override", pre |-> Some(scheduler), ret |-> "none",
                ov |-> None]
    /\ UNCHANGED <<now, config_file, SchedOthers>>

(* The process ends and a new one constructs its Scheduler from the files *)
PersistRestart ==
    /\ call.op # "restart"
    /\ scheduler' = NewScheduler(load_state(state_file), config_file)
    /\ call' = [op |-> "restart", pre |-> Some(scheduler), ret |-> "none",
                ov |-> None]
    /\ UNCHANGED <<now, state_file, config_file, SchedOthers>>

PersistNext ==
    \/ PersistAdvance
    \/ PersistUpdate
    \/ PersistSetOverride
    \/ PersistClearOverride
    \/ PersistRestart

SpecPersist == PersistInit /\ [][PersistNext]_vars

(* C23: after every call of update(), set_override() and clear_override()  *)
(* the state file loads to the in-memory state (a file that holds a        *)
(* document holds the in-memory state's), and a Scheduler constructed from *)
(* the file starts with the schedule_state and override_until the previous *)
(* one had.                                                                *)
C23_SaveLoadIdentity ==
    /\ load_state(state_file) = scheduler.state
    /\ (state_file.exists /\ ~json_load_raises(state_file.data))
          => state_file.data = json_dump_state(scheduler.state)
    /\ (call.op = "restart") =>
          /\ scheduler.state.schedule_state = Val(call.pre).state.schedule_state
          /\ scheduler.state.override_until = Val(call.pre).state.override_until

C23_Witness ==
    /\ call.op = "restart"
    /\ scheduler.state.schedule_state = OVERRIDE_OFF
    /\ scheduler.state.override_until = Some(PersistBoot + 300 + 600)
    /\ Val(call.pre).last_check > 0

----------------------------------------------------------------------------
(* SpecReload: the orchestrator's Scheduler while another process (the web *)
(* server's update_config -> save_config) replaces the schedule config     *)
(* document.  __init__ reads the document (load_config, line 58) and the   *)
(* file's mtime (_get_config_mtime, line 64) in two steps; the file can be *)
(* replaced between them.  Every replacement gets an mtime newer than the  *)
(* file's previous one.                                                    *)

ReloadBoot == Clock(6, 58, 30)
ReloadSteps == {300, 600}
ReloadStates == {DefaultState, [DefaultState EXCEPT !.schedule_state = ON]}

ReloadCall ==
    [op |-> "init", pre |-> None, ret |-> "none", evaluated |-> FALSE,
     pending |-> FALSE, first_after |-> FALSE, replacements |-> 0]

(* __init__ up to line 61: state and config fields loaded *)
ReloadInit ==
    /\ now = ReloadBoot
    /\ config_file \in { [doc |-> d, mtime |-> ReloadBoot - 1] : d \in ConfigDocs }
    /\ state_file \in ReloadStates
    /\ scheduler = NewScheduler(state_file, config_file)
    /\ procs = [orchestrator |-> "get_config_mtime"]
    /\ call = ReloadCall
    /\ fade_controller = IdleFade
    /\ controller = IdleController
    /\ control_file = IdleControl
    /\ fs = IdleFs
    /\ oled_sync = IdleOled
    /\ telemetry_file = IdleTelemetry

ReloadOthers ==
    <<fade_controller, controller, control_file, fs, oled_sync, telemetry_file>>

(* __init__ line 64: self.config_mtime = self._get_config_mtime() *)
GetConfigMtime ==
    /\ procs.orchestrator = "get_config_mtime"
    /\ scheduler' = [scheduler EXCEPT !.config_mtime = config_file.mtime]
    /\ procs' = [procs EXCEPT !.orchestrator = "ready"]
    /\ call' = [call EXCEPT !.op = "get_config_mtime"]
    /\ UNCHANGED <<now, state_file, config_file, ReloadOthers>>

(* save_config by another process: the document replaced by one with       *)
(* different fields                                                        *)
ConfigReplaced ==
    /\ call.replacements < MaxReplacements
    /\ now > config_file.mtime
    /\ \E d \in ConfigDocs :
          /\ d # config_file.doc
          /\ config_file' = [doc |-> d, mtime |-> now]
    /\ call' = [call EXCEPT !.op = "replace", !.pending = TRUE,
                            !.replacements = @ + 1]
    /\ UNCHANGED <<now, scheduler, state_file, procs, ReloadOthers>>

ReloadAdvance ==
    /\ \E d \in ReloadSteps :
          /\ now + d <= ReloadBoot + MaxReloadElapsed
          /\ now' = now + d
    /\ call' = [call EXCEPT !.op = "advance"]
    /\ UNCHANGED <<scheduler, state_file, config_file, procs, ReloadOthers>>

ReloadUpdate ==
    /\ procs.orchestrator = "ready"
    /\ \E r \in {update(scheduler, config_file, now)} :
          LET evaluated == ~(now - scheduler.last_check < check_interval)
          IN /\ scheduler' = r.self
             /\ state_file' = IF r.saved THEN r.self.state ELSE state_file
             /\ call' = [call EXCEPT
                           !.op = "update", !.pre = Some(scheduler), !.ret = r.ret,
                           !.evaluated = evaluated,
                           !.first_after = evaluated /\ call.pending,
                           !.pending = IF evaluated THEN FALSE ELSE @]
    /\ UNCHANGED <<now, config_file, procs, ReloadOthers>>

ReloadNext ==
    \/ GetConfigMtime
    \/ ConfigReplaced
    \/ ReloadAdvance
    \/ ReloadUpdate

SpecReload == ReloadInit /\ [][ReloadNext]_vars

(* The fields of the config document, as a Scheduler holds them *)
DocFields(doc) ==
    [enabled |-> doc.enabled,
     start_time |-> parse_time(doc.start_time),
     end_time |-> parse_time(doc.end_time)]

(* C24: the first evaluated update() tick after a replacement of the       *)
(* config document leaves the Scheduler with the new document's fields     *)
(* and returns the edge event the new fields call for: fade_in when they   *)
(* say on and the state was not on, fade_out when they say off and the     *)
(* state was on, none otherwise.                                           *)
C24_HotReload ==
    (call.op = "update" /\ call.first_after) =>
        LET doc == DocFields(config_file.doc)
            was_on == Val(call.pre).state.schedule_state \in {ON, OVERRIDE_ON}
        IN /\ scheduler.enabled = doc.enabled
           /\ scheduler.start_time = doc.start_time
           /\ scheduler.end_time = doc.end_time
           /\ call.ret = IF WindowSaysOn(doc, now) /\ ~was_on THEN "fade_in"
                         ELSE IF ~WindowSaysOn(doc, now) /\ was_on THEN "fade_out"
                         ELSE "none"

----------------------------------------------------------------------------
(* The schedule config file as the Scheduler's constructor finds it: it is *)
(* missing, holds a text json.load rejects, or holds a JSON object or a    *)
(* JSON array.  An object is its three keys, each absent (None) or present *)
(* with a value; a time value is a tuple as parse_time takes it.           *)

ConfigObject(enabled, start_time, end_time) ==
    [enabled |-> enabled, start_time |-> start_time, end_time |-> end_time]

DefaultConfigObject == ConfigObject(Some(TRUE), Some(<<7, 0>>), Some(<<20, 0>>))

ConfigFile(kind, doc) == [kind |-> kind, doc |-> doc]

(* load_config: what json.load returned, or the defaults when the file is  *)
(* missing or json.load raises                                             *)
load_config(file) ==
    IF file.kind \in {"object", "array"} THEN file
    ELSE ConfigFile("object", DefaultConfigObject)

(* config.get(key, default) *)
config_get(config, key, default) ==
    IF config.doc[key] = None THEN default ELSE Val(config.doc[key])

(* __init__ lines 58-61: config.get raises AttributeError on a list *)
init_raises(file) == load_config(file).kind # "object"

(* The document as config.get hands its values on with their defaults:     *)
(* "enabled" True, "start_time" "07:00", "end_time" "20:00"                *)
config_fields(file) ==
    [doc |-> [enabled |-> config_get(load_config(file), "enabled", TRUE),
              start_time |-> config_get(load_config(file), "start_time", <<7, 0>>),
              end_time |-> config_get(load_config(file), "end_time", <<20, 0>>)],
     mtime |-> 0]

----------------------------------------------------------------------------
(* SpecConfig: Schedulers constructed from config files of every kind *)

TimeValues == {<<6, 30>>, <<21, 15>>}
MalformedTimes == {<<25, 0>>, <<7>>, <<>>}
ConfigFiles ==
    { ConfigFile("missing", DefaultConfigObject),
      ConfigFile("unparseable", DefaultConfigObject),
      ConfigFile("array", DefaultConfigObject) }
    \cup { ConfigFile("object", ConfigObject(en, st, et)) :
             en \in {None, Some(TRUE), Some(FALSE)},
             st \in {None} \cup {Some(v) : v \in TimeValues \cup MalformedTimes},
             et \in {None} \cup {Some(v) : v \in TimeValues \cup MalformedTimes} }

ConfigCall == [op |-> "init", raised |-> FALSE, writes |-> 0]

ConfigInit ==
    /\ now = SchedBoot
    /\ config_file = ConfigFile("missing", DefaultConfigObject)
    /\ state_file = DefaultState
    /\ scheduler = NewScheduler(state_file, config_fields(config_file))
    /\ call = ConfigCall
    /\ fade_controller = IdleFade
    /\ controller = IdleController
    /\ control_file = IdleControl
    /\ fs = IdleFs
    /\ procs = IdleProcs
    /\ oled_sync = IdleOled
    /\ telemetry_file = IdleTelemetry

(* The config file written, removed or damaged from outside *)
ConfigFileChanged ==
    /\ call.writes < MaxConfigWrites
    /\ \E f \in ConfigFiles :
          /\ f # config_file
          /\ config_file' = f
    /\ call' = [call EXCEPT !.op = "write", !.writes = @ + 1]
    /\ UNCHANGED <<now, scheduler, state_file, SchedOthers>>

(* Scheduler(): a constructor that raises leaves no new object *)
SchedulerConstructed ==
    /\ call.op = "write"
    /\ scheduler' = IF init_raises(config_file) THEN scheduler
                    ELSE NewScheduler(state_file, config_fields(config_file))
    /\ call' = [call EXCEPT !.op = "construct", !.raised = init_raises(config_file)]
    /\ UNCHANGED <<now, config_file, state_file, SchedOthers>>

ConfigNext ==
    \/ ConfigFileChanged
    \/ SchedulerConstructed

SpecConfig == ConfigInit /\ [][ConfigNext]_vars

(* A "HH:MM" text with an hour in 0..23 and a minute in 0..59 *)
WellFormedTime(v) == Len(v) = 2 /\ v[1] \in 0..23 /\ v[2] \in 0..59
FieldUnusable(file, key) ==
    file.doc[key] = None \/ ~WellFormedTime(Val(file.doc[key]))

(* C25: a Scheduler constructed from a config object whose start_time is   *)
(* malformed or absent has start 07:00, one whose end_time is malformed or *)
(* absent has end 20:00; from a missing or unparseable file it has         *)
(* enabled = true and the window 07:00-20:00; in none of these cases does  *)
(* the constructor raise.                                                  *)
C25_ConfigDefaults ==
    (call.op = "construct" /\ config_file.kind # "array") =>
        /\ ~call.raised
        /\ (config_file.kind = "object" /\ FieldUnusable(config_file, "start_time"))
              => scheduler.start_time = dtime(7, 0, 0)
        /\ (config_file.kind = "object" /\ FieldUnusable(config_file, "end_time"))
              => scheduler.end_time = dtime(20, 0, 0)
        /\ (config_file.kind \in {"missing", "unparseable"})
              => /\ scheduler.enabled
                 /\ scheduler.start_time = dtime(7, 0, 0)
                 /\ scheduler.end_time = dtime(20, 0, 0)

----------------------------------------------------------------------------
(* SpecUnknown: the loop polling a control document whose effect name may  *)
(* be one the controller has not registered, next to effect, brightness    *)
(* and demo requests.                                                      *)

UnknownBoot == Clock(12, 0, 0)
UnknownSteps == {10}
UnknownModes == {"load_rainbow"} \cup UnknownEffects
UnknownBrightness == {50}

UnknownInit ==
    /\ now = UnknownBoot
    /\ config_file = [doc |-> [DefaultConfig EXCEPT !.enabled = FALSE],
                      mtime |-> UnknownBoot - 1]
    /\ state_file = [DefaultState EXCEPT !.schedule_state = ON]
    /\ scheduler = NewScheduler(state_file, config_file)
    /\ fade_controller = NewFadeController
    /\ controller = NewController(scheduler, now)
    /\ control_file = None
    /\ oled_sync = NewOLEDSync
    /\ telemetry_file = TelemetryMissing
    /\ procs = [orchestrator |-> "start"]
    /\ fs = IdleFs
    /\ call = RunCall

UnknownIteration == RunIteration(UnknownSteps, HostMetrics, MaxUnknownFrames)
UnknownSetMode ==
    \E mode \in UnknownModes : ControlPlaneWrite("effect", mode, MaxUnknownWrites)
UnknownSetBrightness ==
    \E b \in UnknownBrightness : ControlPlaneWrite("brightness", b, MaxUnknownWrites)
UnknownToggle ==
    \E enabled \in BOOLEAN : ControlPlaneWrite("enabled", enabled, MaxUnknownWrites)
UnknownDemoRequest == ControlPlaneWrite("demo_mode", TRUE, MaxUnknownWrites)

UnknownNext ==
    \/ RunBegin
    \/ UnknownIteration
    \/ UnknownSetMode
    \/ UnknownSetBrightness
    \/ UnknownToggle
    \/ UnknownDemoRequest

SpecUnknown == UnknownInit /\ [][UnknownNext]_vars

UnknownEffectPolled ==
    /\ call.op = "loop"
    /\ call.polled
    /\ call.read.effect \notin available_effects

----------------------------------------------------------------------------
(* randomness.py, the Randomness Modulator.  Its values are exact          *)
(* fractions, counted in units of 1/3000 (1.0 is 3000, 5.0 is 15000), so   *)
(* that the temperature bonus (t - 70)/15 is a whole number of units; a    *)
(* controller value in thousandths is three of these units each.           *)

(* base_load, in thousandths: cpu_normalized * 0.6 + ram_normalized * 0.4 *)
base_load_inverted(cpu_percent, ram_percent) ==
    (100 - Min(cpu_percent, 100)) * 6 + (100 - Min(ram_percent, 100)) * 4

base_load(cpu_percent, ram_percent) ==
    Min(cpu_percent, 100) * 6 + Min(ram_percent, 100) * 4

(* temp_bonus: 0.0 up to 70 degrees, (t - 70)/15 above, at most 1.0 *)
temp_bonus_uncapped(temperature) ==
    IF temperature > 70 THEN 200 * (temperature - 70) ELSE 0

temp_bonus(temperature) ==
    IF temperature > 70 THEN Min(200 * (temperature - 70), 3000) ELSE 0

(* calculate_randomness(cpu_percent, ram_percent, temperature) *)
randomness_unbounded(cpu_percent, ram_percent, temperature) ==
    3000 + 9 * base_load(cpu_percent, ram_percent) + temp_bonus_uncapped(temperature)

randomness_calculate_randomness(cpu_percent, ram_percent, temperature) ==
    Max(3000, Min(15000, 3000 + 9 * base_load(cpu_percent, ram_percent)
                              + temp_bonus(temperature)))

----------------------------------------------------------------------------
(* SpecRandomness: both chaos functions applied to the same metrics, for   *)
(* cpu and ram over 0..100 in steps of 5 and every whole temperature from  *)
(* -40 to 150.                                                             *)

Percentages == {5 * i : i \in 0..20}
Temperatures == -40..150

RandomnessCall == [op |-> "init", module_ret |-> 0, controller_ret |-> 0]

RandomnessInit ==
    /\ now = Clock(12, 0, 0)
    /\ config_file = [doc |-> DefaultConfig, mtime |-> 0]
    /\ state_file = DefaultState
    /\ scheduler = NewScheduler(state_file, config_file)
    /\ controller \in
          { [NewController(scheduler, now) EXCEPT
                !.system_metrics = [cpu_percent |-> c, ram_percent |-> r,
                                    temperature |-> t]] :
              c \in Percentages, r \in Percentages, t \in Temperatures }
    /\ call = RandomnessCall
    /\ fade_controller = IdleFade
    /\ control_file = IdleControl
    /\ fs = IdleFs
    /\ procs = IdleProcs
    /\ oled_sync = IdleOled
    /\ telemetry_file = IdleTelemetry

CalculateRandomnessCall ==
    /\ call.op = "init"
    /\ call' = [op |-> "calculate_randomness",
                module_ret |-> randomness_calculate_randomness(
                                   controller.system_metrics.cpu_percent,
                                   controller.system_metrics.ram_percent,
                                   controller.system_metrics.temperature),
                controller_ret |-> calculate_randomness(controller)]
    /\ UNCHANGED <<now, scheduler, state_file, config_file, fade_controller,
                   controller, control_file, fs, procs, oled_sync, telemetry_file>>

RandomnessNext == CalculateRandomnessCall

SpecRandomness == RandomnessInit /\ [][RandomnessNext]_vars

Cpu == controller.system_metrics.cpu_percent
Ram == controller.system_metrics.ram_percent
Temp == controller.system_metrics.temperature
Calculated == call.op = "calculate_randomness"

(* C27: for the same cpu, ram and temperature the controller's             *)
(* calculate_randomness returns the value of the Randomness Modulator's    *)
(* calculate_randomness.                                                   *)
C27_SameChaosValue ==
    Calculated => 3 * call.controller_ret = call.module_ret

(* C28: for cpu, ram in [0,100] and temp in [-40,150] the Randomness       *)
(* Modulator's calculate_randomness lies in [1.0, 5.0].                    *)
C28_RandomnessRange ==
    Calculated => (3000 <= call.module_ret /\ call.module_ret <= 15000)

C28_Witness ==
    /\ Calculated
    /\ Cpu = 100 /\ Ram = 100 /\ Temp = 150
    /\ call.module_ret = 15000

(* C29: calculate_randomness does not decrease when cpu grows with ram and *)
(* temp fixed, nor when ram grows with cpu and temp fixed.                 *)
C29_RandomnessMonotone ==
    Calculated =>
        /\ \A c \in Percentages :
              c >= Cpu => randomness_calculate_randomness(c, Ram, Temp) >= call.module_ret
        /\ \A r \in Percentages :
              r >= Ram => randomness_calculate_randomness(Cpu, r, Temp) >= call.module_ret

C29_Witness ==
    /\ Calculated
    /\ Cpu = 50 /\ Ram = 50 /\ Temp = 80
    /\ randomness_calculate_randomness(55, Ram, Temp) > call.module_ret
    /\ randomness_calculate_randomness(Cpu, 55, Temp) > call.module_ret

Scenario == Calculated /\ Cpu = 95 /\ Ram = 90 /\ Temp = 90

(* C30 as stated: calculate_randomness(95, 90, 90) is 5.0, the upper clamp *)
C30_ScenarioClamps == Scenario => call.module_ret = 15000

(* C30 amended: calculate_randomness(95, 90, 90) is 4.79, below the upper  *)
(* clamp, in the Randomness Modulator and in the controller alike.         *)
C30_ScenarioValue ==
    Scenario => (call.module_ret = 14370 /\ call.controller_ret = 4790)

C30_Witness == Scenario /\ call.module_ret < 15000

----------------------------------------------------------------------------
(* The normalized system load of collect_system_metrics and the hue zone   *)
(* SystemPulseEffect.update picks from it.  load_avg is in hundredths; the *)
(* load is an exact fraction counted in units of 1/(10000 * cpu_count), so *)
(* that load_avg / cpu_count needs no rounding.                            *)

LoadUnit(cpu_count) == 10000 * cpu_count

system_load_ram_weight_4(cpu_percent, ram_percent, load_avg, cpu_count) ==
    LET load_norm == Min(1000 * cpu_count, 10 * load_avg)
        system_load == 60 * cpu_percent * cpu_count
                       + 40 * ram_percent * cpu_count + load_norm
    IN Min(LoadUnit(cpu_count), Max(0, system_load))

system_load(cpu_percent, ram_percent, load_avg, cpu_count) ==
    LET load_norm == Min(1000 * cpu_count, 10 * load_avg)
        system_load == 60 * cpu_percent * cpu_count
                       + 30 * ram_percent * cpu_count + load_norm
    IN Min(LoadUnit(cpu_count), Max(0, system_load))

(* SystemPulseEffect.update: the colour zone of system_load (a count of    *)
(* units of 1/unit)                                                        *)
pulse_zone(load, unit) ==
    IF 10 * load < 3 * unit THEN "green"
    ELSE IF 10 * load < 6 * unit THEN "yellow"
    ELSE IF 10 * load < 8 * unit THEN "orange"
    ELSE "red"

----------------------------------------------------------------------------
(* SpecLoad: collect_system_metrics' load computation followed by Pulse's  *)
(* zone choice, for cpu and ram over 0..100 in steps of 5, load averages   *)
(* from 0 to twice the core count, on 1, 2, 4 and 6 cores.                 *)

CpuCounts == {1, 2, 4, 6}
LoadPerCore == {0, 25, 50, 75, 85, 90, 95, 100, 150, 200}

LoadCall(cpu, ram, load_avg, cpu_count) ==
    [op |-> "init", cpu_percent |-> cpu, ram_percent |-> ram,
     load_average |-> load_avg, cpu_count |-> cpu_count,
     system_load |-> 0, zone |-> ""]

LoadInit ==
    /\ now = Clock(12, 0, 0)
    /\ config_file = [doc |-> DefaultConfig, mtime |-> 0]
    /\ state_file = DefaultState
    /\ scheduler = NewScheduler(state_file, config_file)
    /\ controller = IdleController
    /\ call \in { LoadCall(c, r, l * n, n) :
                     c \in Percentages, r \in Percentages,
                     l \in LoadPerCore, n \in CpuCounts }
    /\ fade_controller = IdleFade
    /\ control_file = IdleControl
    /\ fs = IdleFs
    /\ procs = IdleProcs
    /\ oled_sync = IdleOled
    /\ telemetry_file = IdleTelemetry

CollectAndPulse ==
    /\ call.op = "init"
    /\ \E load \in {system_load(call.cpu_percent, call.ram_percent,
                                 call.load_average, call.cpu_count)} :
          call' = [call EXCEPT !.op = "pulse",
                               !.system_load = load,
                               !.zone = pulse_zone(load, LoadUnit(call.cpu_count))]
    /\ UNCHANGED <<now, scheduler, state_file, config_file, fade_controller,
                   controller, control_file, fs, procs, oled_sync, telemetry_file>>

LoadNext == CollectAndPulse

SpecLoad == LoadInit /\ [][LoadNext]_vars

LoadScenario == call.op = "pulse" /\ call.cpu_percent = 20 /\ call.ram_percent = 30

(* C31 as stated: with cpu=20 and ram=30 the normalized load is below 0.3  *)
(* for every 1-minute load average, so Pulse is in its green zone.         *)
C31_ScenarioGreen ==
    LoadScenario =>
        /\ 10 * call.system_load < 3 * LoadUnit(call.cpu_count)
        /\ call.zone = "green"

(* C31 amended: with cpu=20 and ram=30 the normalized load is below 0.3,   *)
(* and Pulse green, exactly when the load average is below 0.9 per core.   *)
C31_ScenarioGreenBelowLoad ==
    LoadScenario =>
        /\ (10 * call.load_average < 9 * 100 * call.cpu_count)
              <=> (10 * call.system_load < 3 * LoadUnit(call.cpu_count))
        /\ (call.zone = "green")
              <=> (10 * call.system_load < 3 * LoadUnit(call.cpu_count))

C31_Witness ==
    /\ LoadScenario
    /\ call.cpu_count = 4 /\ call.load_average = 340
    /\ call.zone = "green"

----------------------------------------------------------------------------
(* The control endpoints of the web server (server.py).  Each returns the  *)
(* keyword argument it passes to update_control_state, or None when it     *)
(* answers 400 without calling it.                                         *)

api_set_mode(mode) ==
    IF mode \notin available_effects THEN None
    ELSE Some([field |-> "effect", value |-> mode])

api_set_brightness(brightness) ==
    Some([field |-> "brightness", value |-> Max(0, Min(100, brightness))])

api_toggle(enabled) == Some([field |-> "enabled", value |-> enabled])

----------------------------------------------------------------------------
(* SpecEndpoint: two request handler threads of the web server (the server *)
(* runs threaded), each inside update_control_state between its read of    *)
(* the control document and its write.                                     *)

MaxEndpointRequests == 2

EndpointBoot == Clock(12, 0, 0)
EndpointModes == {"load_rainbow", "strobe"}
EndpointBrightness == {-20, 50, 250}
EndpointRequests ==
    { [endpoint |-> "mode", kw |-> api_set_mode(m)] : m \in EndpointModes }
    \cup { [endpoint |-> "brightness", kw |-> api_set_brightness(b)] :
               b \in EndpointBrightness }
    \cup { [endpoint |-> "toggle", kw |-> api_toggle(en)] : en \in BOOLEAN }

ControlFields == {"effect", "brightness", "enabled", "override", "demo_mode"}

EndpointProc ==
    [pc |-> "idle", kw |-> [field |-> "", value |-> ""], state |-> DefaultControl,
     count |-> 0]

EndpointCall ==
    [op |-> "init", proc |-> "", endpoint |-> "", kw |-> [field |-> "", value |-> ""],
     before |-> DefaultControl]

EndpointInit ==
    /\ now = EndpointBoot
    /\ control_file \in
          {None, Some([DefaultControl EXCEPT !.effect = "load_bars", !.brightness = 70,
                                              !.timestamp = EndpointBoot - 1])}
    /\ procs = [h \in Handlers |-> EndpointProc]
    /\ call = EndpointCall
    /\ config_file = [doc |-> DefaultConfig, mtime |-> 0]
    /\ state_file = DefaultState
    /\ scheduler = NewScheduler(state_file, config_file)
    /\ fade_controller = IdleFade
    /\ controller = IdleController
    /\ fs = IdleFs
    /\ oled_sync = IdleOled
    /\ telemetry_file = IdleTelemetry

EndpointOthers ==
    <<scheduler, state_file, config_file, fade_controller, controller, fs,
      oled_sync, telemetry_file>>

(* A request arrives and is validated: 400, or on to update_control_state *)
EndpointRequest(h) ==
    /\ procs[h].pc = "idle"
    /\ procs[h].count < MaxEndpointRequests
    /\ \E r \in EndpointRequests :
          IF r.kw = None
          THEN /\ procs' = [procs EXCEPT ![h].count = @ + 1]
               /\ call' = [op |-> "rejected", proc |-> h, endpoint |-> r.endpoint,
                           kw |-> call.kw, before |-> read_control_state(control_file)]
          ELSE /\ procs' = [procs EXCEPT ![h].pc = "read", ![h].kw = Val(r.kw),
                                         ![h].count = @ + 1]
               /\ call' = [op |-> "request", proc |-> h, endpoint |-> r.endpoint,
                           kw |-> Val(r.kw), before |-> read_control_state(control_file)]
    /\ UNCHANGED <<now, control_file, EndpointOthers>>

(* update_control_state: state = read_control_state() *)
EndpointRead(h) ==
    /\ procs[h].pc = "read"
    /\ procs' = [procs EXCEPT ![h].pc = "write",
                              ![h].state = read_control_state(control_file)]
    /\ call' = [call EXCEPT !.op = "read", !.proc = h]
    /\ UNCHANGED <<now, control_file, EndpointOthers>>

(* state.update(kwargs); write_control_state(state); the endpoint answers  *)
(* success                                                                 *)
EndpointWrite(h) ==
    /\ procs[h].pc = "write"
    /\ control_file' =
          write_control_state([procs[h].state EXCEPT ![procs[h].kw.field] =
                                                        procs[h].kw.value], now)
    /\ procs' = [procs EXCEPT ![h].pc = "idle"]
    /\ call' = [call EXCEPT !.op = "success", !.proc = h, !.kw = procs[h].kw,
                            !.before = read_control_state(control_file)]
    /\ now' = now + 1
    /\ UNCHANGED EndpointOthers

EndpointNext ==
    \/ \E h \in Handlers : EndpointRequest(h)
    \/ \E h \in Handlers : EndpointRead(h)
    \/ \E h \in Handlers : EndpointWrite(h)

SpecEndpoint == EndpointInit /\ [][EndpointNext]_vars

(* C32: after a successful mode, brightness or toggle request the control  *)
(* document holds the requested value in that field (brightness within     *)
(* 0..100, mode a registered effect) and every other field has the value   *)
(* it had before the write; a rejected request leaves the document as it   *)
(* was.                                                                    *)
C32_EndpointFrame ==
    LET doc == read_control_state(control_file)
    IN /\ call.op = "success" =>
            /\ doc[call.kw.field] = call.kw.value
            /\ call.kw.field = "brightness" => call.kw.value \in 0..100
            /\ call.kw.field = "effect" => call.kw.value \in available_effects
            /\ \A f \in ControlFields \ {call.kw.field} : doc[f] = call.before[f]
       /\ call.op = "rejected" => doc = call.before

----------------------------------------------------------------------------
(* SpecOverride: the two Scheduler objects of the installation on the one  *)
(* state file (both are constructed with the default path): the            *)
(* orchestrator's, ticked by run(), and the web server's, used by          *)
(* api_override and api_clear_override.  call.written is the override the  *)
(* web server wrote last, until it is cleared.                             *)

MaxOverrideElapsed == 1800

OverrideBoot == Clock(6, 58, 30)
OverrideSteps == {300, 600}
ApiDurations == {60, 120}

OverrideCall == [op |-> "init", ret |-> "none", written |-> None]

OverrideInit ==
    /\ now = OverrideBoot
    /\ config_file \in { [doc |-> d, mtime |-> OverrideBoot - 1] : d \in ConfigDocs }
    /\ state_file \in
          { StateFileMissing,
            [exists |-> TRUE, data |-> json_dump_state(DefaultState)],
            [exists |-> TRUE,
             data |-> json_dump_state([DefaultState EXCEPT
                                          !.schedule_state = ON,
                                          !.current_brightness = 1000])] }
    /\ scheduler = NewScheduler(load_state(state_file), config_file)
    /\ procs = [web_server |-> NewScheduler(load_state(state_file), config_file)]
    /\ call = OverrideCall
    /\ fade_controller = IdleFade
    /\ controller = IdleController
    /\ control_file = IdleControl
    /\ fs = IdleFs
    /\ oled_sync = IdleOled
    /\ telemetry_file = IdleTelemetry

OverrideOthers ==
    <<config_file, fade_controller, controller, control_file, fs, oled_sync,
      telemetry_file>>

OverrideAdvance ==
    /\ \E d \in OverrideSteps :
          /\ now + d <= OverrideBoot + MaxOverrideElapsed
          /\ now' = now + d
    /\ call' = [call EXCEPT !.op = "advance", !.ret = "none"]
    /\ UNCHANGED <<scheduler, procs, state_file, OverrideOthers>>

(* run(): action = self.scheduler.update() in the orchestrator process *)
RendererUpdate ==
    /\ \E r \in {update(scheduler, config_file, now)} :
          /\ scheduler' = r.self
          /\ state_file' = IF r.saved THEN save_state(r.self, state_file)
                           ELSE state_file
          /\ call' = [call EXCEPT !.op = "update", !.ret = r.ret]
    /\ UNCHANGED <<now, procs, OverrideOthers>>

(* api_override: scheduler.set_override(turn_on, duration) in the web      *)
(* server process                                                          *)
ApiOverride ==
    /\ \E turn_on \in BOOLEAN, d \in ApiDurations :
          \E s \in {set_override(procs.web_server, turn_on, d, now)} :
             /\ procs' = [procs EXCEPT !.web_server = s]
             /\ state_file' = save_state(s, state_file)
             /\ call' = [op |-> "api_override", ret |-> "none",
                         written |-> Some([override_until |-> s.state.override_until,
                                           schedule_state |-> s.state.schedule_state])]
    /\ UNCHANGED <<now, scheduler, OverrideOthers>>

(* api_clear_override: scheduler.clear_override() in the web server        *)
(* process                                                                 *)
ApiClearOverride ==
    /\ \E s \in {clear_override(procs.web_server, now)} :
          /\ procs' = [procs EXCEPT !.web_server = s]
          /\ state_file' = save_state(s, state_file)
          /\ call' = [op |-> "api_clear_override", ret |-> "none", written |-> None]
    /\ UNCHANGED <<now, scheduler, OverrideOthers>>

OverrideNext ==
    \/ OverrideAdvance
    \/ RendererUpdate
    \/ ApiOverride
    \/ ApiClearOverride

SpecOverride == OverrideInit /\ [][OverrideNext]_vars

(* C35: an override the web server's Scheduler has written to the state    *)
(* file, not yet expired and not cleared, is in the persisted document,    *)
(* whatever the orchestrator's Scheduler has saved meanwhile.              *)
C35_OverrideStaysPersisted ==
    (call.written # None /\ now < Val(Val(call.written).override_until)) =>
        /\ load_state(state_file).override_until = Val(call.written).override_until
        /\ load_state(state_file).schedule_state = Val(call.written).schedule_state

----------------------------------------------------------------------------
(* SpecClear: the loop while the control plane toggles enabled and the bus *)
(* fails for whole iterations (every attempt of every write) or works.     *)

MaxClearFrames == 5
MaxClearWrites == 2

ClearBoot == Clock(12, 0, 0)
ClearSteps == {10}
ClearFailures == {0, retry_count}

ClearInit ==
    /\ now = ClearBoot
    /\ config_file = [doc |-> [DefaultConfig EXCEPT !.enabled = FALSE],
                      mtime |-> ClearBoot - 1]
    /\ state_file \in {DefaultState, [DefaultState EXCEPT !.schedule_state = ON]}
    /\ scheduler = NewScheduler(state_file, config_file)
    /\ fade_controller = NewFadeController
    /\ controller = NewController(scheduler, now)
    /\ control_file = None
    /\ oled_sync = NewOLEDSync
    /\ telemetry_file = TelemetryText(TelemetryDoc(ClearBoot, 10))
    /\ procs = [orchestrator |-> "start"]
    /\ fs = IdleFs
    /\ call = RunCall

ClearIteration == RunIterationOnBus(ClearSteps, HostMetrics, MaxClearFrames, ClearFailures)
ClearToggle == \E enabled \in BOOLEAN : ControlPlaneWrite("enabled", enabled, MaxClearWrites)

ClearNext ==
    \/ RunBegin
    \/ ClearIteration
    \/ ClearToggle

SpecClear == ClearInit /\ [][ClearNext]_vars

(* C36: while enabled=false stays in the control document and the clear a  *)
(* poll issued has failed, the next poll of the document issues a clear    *)
(* again.                                                                  *)
C36_ClearReissued ==
    (call.op = "loop" /\ call.polled /\ ~call.read.enabled /\ call.was_pending) =>
        call.turned_off

----------------------------------------------------------------------------
(* SpecDefer: the loop through a schedule fade while the control plane     *)
(* writes brightness values and toggles enabled.                           *)

MaxDeferFrames == 5
MaxDeferWrites == 2

DeferSteps == {10}
DeferBrightness == {50, 70}

DeferInit ==
    /\ now = Boot
    /\ config_file \in { [doc |-> d, mtime |-> Boot - 1] : d \in ConfigDocs }
    /\ state_file \in {DefaultState, [DefaultState EXCEPT !.schedule_state = ON]}
    /\ scheduler = NewScheduler(state_file, config_file)
    /\ fade_controller = NewFadeController
    /\ controller = NewController(scheduler, now)
    /\ control_file = None
    /\ oled_sync = NewOLEDSync
    /\ telemetry_file = TelemetryText(TelemetryDoc(Boot, 10))
    /\ procs = [orchestrator |-> "start"]
    /\ fs = IdleFs
    /\ call = RunCall

DeferIteration == RunIteration(DeferSteps, HostMetrics, MaxDeferFrames)
DeferToggle == \E enabled \in BOOLEAN : ControlPlaneWrite("enabled", enabled, MaxDeferWrites)
DeferSetBrightness ==
    \E b \in DeferBrightness : ControlPlaneWrite("brightness", b, MaxDeferWrites)

DeferNext ==
    \/ RunBegin
    \/ DeferIteration
    \/ DeferToggle
    \/ DeferSetBrightness

SpecDefer == DeferInit /\ [][DeferNext]_vars

(* The poll of the last iteration ran while a fade was in progress *)
PolledWhileFading == call.op = "loop" /\ call.polled /\ is_fading(fade_controller)

(* The poll of the last iteration ran after the fade had ended and read a  *)
(* document written while that fade was in progress, with a brightness     *)
(* other than the default.                                                 *)
PolledDeferredWrite ==
    /\ call.op = "loop" /\ call.polled /\ ~is_fading(fade_controller)
    /\ call.read.timestamp > fade_controller.fade_start
    /\ call.read.timestamp < fade_controller.fade_start + fade_controller.fade_duration
    /\ call.read.brightness \in DeferBrightness

----------------------------------------------------------------------------
(* SpecRegistry: set_effect under a configuration whose available_effects  *)
(* may list a name the effect registry does not hold. The controller       *)
(* carries its configuration in the field config.                          *)

EFFECTS ==
    {"system_pulse", "load_rainbow", "random_sparkle", "thermal_gradient", "load_bars"}

(* create_effect: None when it raises ValueError, else the new object *)
create_effect(effect_name, t) ==
    IF effect_name \notin EFFECTS THEN None
    ELSE Some([name |-> effect_name, start_time |-> t])

(* set_effect as written: the name is assigned inside the try, before      *)
(* create_effect is called, and stays assigned when create_effect raises.  *)
set_effect_configured(self, effect_name, t) ==
    IF effect_name \notin self.config.available_effects
    THEN [self |-> self, ret |-> FALSE]
    ELSE IF create_effect(effect_name, t) = None
    THEN [self |-> [self EXCEPT !.current_effect_name = effect_name], ret |-> FALSE]
    ELSE [self |-> [self EXCEPT !.current_effect_name = effect_name,
                                !.current_effect = create_effect(effect_name, t)],
          ret |-> TRUE]

(* The effect branch of check_control_commands for a document naming effect *)
apply_effect_change(self, effect, t) ==
    IF effect # self.current_effect_name /\ effect \in self.config.available_effects
    THEN [set |-> set_effect_configured(self, effect, t), called |-> TRUE]
    ELSE [set |-> [self |-> self, ret |-> FALSE], called |-> FALSE]

MaxRegistryElapsed == 30

RegistryBoot == Clock(12, 0, 0)
RegistrySteps == {control_check_interval, 10}
RegistryModes == {"system_pulse", "thermal_gradient", "load_bars"} \cup UnknownEffects
RegistryConfigs ==
    { [default_effect |-> "system_pulse", available_effects |-> a] :
         a \in {EFFECTS, EFFECTS \cup UnknownEffects, EFFECTS \ {"load_bars"}} }

RegistryCall == [op |-> "none", effect |-> "", called |-> FALSE, ret |-> FALSE,
                 pre |-> IdleController]

RegistryInit ==
    /\ now = RegistryBoot
    /\ config_file = [doc |-> [DefaultConfig EXCEPT !.enabled = FALSE],
                      mtime |-> RegistryBoot - 1]
    /\ state_file = [DefaultState EXCEPT !.schedule_state = ON]
    /\ scheduler = NewScheduler(state_file, config_file)
    /\ controller \in
          { [f \in DOMAIN NewController(scheduler, now) \cup {"config"} |->
                IF f = "config" THEN c
                ELSE IF f = "current_effect_name" THEN c.default_effect
                ELSE NewController(scheduler, now)[f]] : c \in RegistryConfigs }
    /\ procs = [orchestrator |-> "start"]
    /\ call = RegistryCall
    /\ fade_controller = IdleFade
    /\ control_file = IdleControl
    /\ fs = IdleFs
    /\ oled_sync = IdleOled
    /\ telemetry_file = IdleTelemetry

RegistryOthers ==
    UNCHANGED <<scheduler, state_file, config_file, fade_controller, control_file,
                fs, oled_sync, telemetry_file>>

(* run(): self.running = True; self.set_effect(self.current_effect_name) *)
RegistryBegin ==
    /\ procs.orchestrator = "start"
    /\ \E r \in {set_effect_configured([controller EXCEPT !.running = TRUE],
                                        controller.current_effect_name, now)} :
          /\ controller' = r.self
          /\ call' = [op |-> "set_effect", effect |-> controller.current_effect_name,
                      called |-> TRUE, ret |-> r.ret,
                      pre |-> [controller EXCEPT !.running = TRUE]]
    /\ procs' = [procs EXCEPT !.orchestrator = "loop"]
    /\ UNCHANGED now
    /\ RegistryOthers

(* A control poll reading a document whose effect field is effect *)
RegistryPoll ==
    /\ procs.orchestrator = "loop"
    /\ \E step \in RegistrySteps, effect \in RegistryModes :
          /\ now + step <= RegistryBoot + MaxRegistryElapsed
          /\ now' = now + step
          /\ \E r \in {apply_effect_change(controller, effect, now')} :
                /\ controller' = r.set.self
                /\ call' = [op |-> IF r.called THEN "set_effect" ELSE "poll",
                            effect |-> effect, called |-> r.called,
                            ret |-> r.set.ret, pre |-> controller]
    /\ UNCHANGED procs
    /\ RegistryOthers

RegistryNext ==
    \/ RegistryBegin
    \/ RegistryPoll

SpecRegistry == RegistryInit /\ [][RegistryNext]_vars

(* current_effect is an object of the class registered under the name *)
EffectMatchesName(self) ==
    /\ self.current_effect # None
    /\ self.current_effect_name \in EFFECTS
    /\ Val(self.current_effect).name = self.current_effect_name

(* C38: once run() has installed the first effect, current_effect is an    *)
(* instance of the class registered under current_effect_name, and a       *)
(* set_effect call that returns False leaves both fields as they were.     *)
C38_EffectMatchesName ==
    /\ controller.running => EffectMatchesName(controller)
    /\ (call.op = "set_effect" /\ ~call.ret) =>
          /\ controller.current_effect_name = call.pre.current_effect_name
          /\ controller.current_effect = call.pre.current_effect

----------------------------------------------------------------------------
(* SpecHardware: CubeNano's operations one bus write at a time, each       *)
(* write_byte_data succeeding or failing.  Sleeps are in milliseconds.     *)

I2C_WRITE_DELAY == 25
I2C_COMMAND_DELAY == 30
RETRY_DELAY == 50
LED_ALL == 255
LED_COUNT == 14

(* One pass of the for loop of _write_register with the loop restarted     *)
(* after the last attempt has failed                                       *)
write_attempt_restarts(attempt, ok) ==
    IF ok THEN [next |-> "return", attempt |-> attempt, sleep |-> I2C_WRITE_DELAY]
    ELSE IF attempt = retry_count - 1
    THEN [next |-> "continue", attempt |-> 0, sleep |-> 0]
    ELSE [next |-> "continue", attempt |-> attempt + 1, sleep |-> RETRY_DELAY]

(* One pass of the for loop of _write_register: attempt is the loop        *)
(* variable, ok whether write_byte_data returned.                          *)
write_attempt(attempt, ok) ==
    IF ok THEN [next |-> "return", attempt |-> attempt, sleep |-> I2C_WRITE_DELAY]
    ELSE IF attempt = retry_count - 1
    THEN [next |-> "raise", attempt |-> attempt, sleep |-> 0]
    ELSE [next |-> "continue", attempt |-> attempt + 1, sleep |-> RETRY_DELAY]

(* The number of _write_register calls an operation makes *)
RegisterWrites(op) == IF op = "turn_off" THEN 1 ELSE 4

(* The longest an operation sleeps: each register write two retry delays   *)
(* and one write delay, then the command delay.                            *)
MaxSleep(op) ==
    RegisterWrites(op) * ((retry_count - 1) * RETRY_DELAY + I2C_WRITE_DELAY)
        + I2C_COMMAND_DELAY

MaxHardwareCalls == 2

HardwareOps == {"set_RGB", "set_all_RGB", "turn_off"}
LedIds == {0, LED_COUNT - 1, LED_COUNT, LED_ALL}

HardwareCall == [op |-> "none", status |-> "idle", led_id |-> 0, register |-> 0,
                 registers |-> 0, attempt |-> 0, attempts |-> 0, elapsed |-> 0,
                 failed_all |-> TRUE, calls |-> 0]

HardwareInit ==
    /\ now = Clock(12, 0, 0)
    /\ config_file = [doc |-> DefaultConfig, mtime |-> 0]
    /\ state_file = DefaultState
    /\ scheduler = NewScheduler(state_file, config_file)
    /\ controller = IdleController
    /\ call = HardwareCall
    /\ fade_controller = IdleFade
    /\ control_file = IdleControl
    /\ fs = IdleFs
    /\ procs = IdleProcs
    /\ oled_sync = IdleOled
    /\ telemetry_file = IdleTelemetry

HardwareOthers ==
    UNCHANGED <<now, scheduler, state_file, config_file, fade_controller, controller,
                control_file, fs, procs, oled_sync, telemetry_file>>

(* set_RGB(led_id, ...), set_all_RGB(...) or turn_off() is called.  set_RGB *)
(* raises ValueError for a led_id that is neither LED_ALL nor below        *)
(* LED_COUNT before it writes anything.                                    *)
HardwareBegin ==
    /\ call.status # "running"
    /\ call.calls < MaxHardwareCalls
    /\ \E op \in HardwareOps, id \in LedIds :
          /\ op # "set_RGB" => id = LED_ALL
          /\ call' = [op |-> op,
                      status |-> IF id # LED_ALL /\ ~(0 <= id /\ id < LED_COUNT)
                                 THEN "raised" ELSE "running",
                      led_id |-> id, register |-> 1, registers |-> RegisterWrites(op),
                      attempt |-> 0, attempts |-> 0, elapsed |-> 0,
                      failed_all |-> TRUE, calls |-> call.calls + 1]
    /\ HardwareOthers

(* One pass of _write_register's loop for the current register; after the  *)
(* last register write has returned the operation sleeps the command delay *)
(* and returns.                                                            *)
WriteAttempt ==
    /\ call.status = "running"
    /\ \E ok \in BOOLEAN :
          \E r \in {write_attempt(call.attempt, ok)} :
             call' = [call EXCEPT
                 !.attempts = @ + 1,
                 !.failed_all = @ /\ ~ok,
                 !.attempt = IF r.next = "return" THEN 0 ELSE r.attempt,
                 !.register = IF r.next = "return" /\ @ < call.registers
                              THEN @ + 1 ELSE @,
                 !.elapsed = @ + r.sleep
                               + IF r.next = "return" /\ call.register = call.registers
                                 THEN I2C_COMMAND_DELAY ELSE 0,
                 !.status = IF r.next = "raise" THEN "raised"
                            ELSE IF r.next = "return" /\ call.register = call.registers
                            THEN "returned" ELSE @]
    /\ HardwareOthers

HardwareNext ==
    \/ HardwareBegin
    \/ WriteAttempt

(* Each statement of an operation is followed by the next one: a bus write *)
(* returns or raises, a sleep ends.                                        *)
SpecHardware == HardwareInit /\ [][HardwareNext]_vars /\ WF_vars(WriteAttempt)

(* C40: every hardware operation terminates whatever the bus does: a       *)
(* register write makes at most retry_count attempts, an operation at most *)
(* retry_count attempts for each of its register writes with a bounded     *)
(* total of sleeps, and an operation that has started returns or raises.   *)
C40_HardwareTerminates ==
    /\ [](/\ call.attempt < retry_count
          /\ call.attempts <= call.registers * retry_count
          /\ call.elapsed <= MaxSleep(call.op))
    /\ (call.status = "running") ~> (call.status \in {"returned", "raised"})

(* turn_off() on a bus where every write fails: raised after retry_count   *)
(* attempts and two retry delays                                           *)
C40_Witness ==
    /\ call.op = "turn_off"
    /\ call.status = "raised"
    /\ call.failed_all
    /\ call.attempts = retry_count
    /\ call.elapsed = (retry_count - 1) * RETRY_DELAY

====
